---- MODULE Spec2Model ----
(***************************************************************************)
(* HerbautArbre: the graph builder and layout passes of src/tree/layout.js,*)
(* the viewport controller of src/tree/renderer.js, and the search: the    *)
(* panels, the filter and the result modal of src/search and ui/search.js. *)
(*                                                                         *)
(* SpecLayout  runs buildTreeLayout on inputs drawn from bounded sets.     *)
(* SpecRenderer runs a renderer created on a finished layout.              *)
(* SpecSearch  submits the search form of a page built on a small index.   *)
(* SpecModal   interleaves SearchModal.open() and close() with the         *)
(*             callbacks they defer.                                       *)
(* SpecPage    runs init(): the fetch, renderTree and the media query.     *)
(* SpecRecords submits the add-person form of the chart page.              *)
(* SpecChart   runs the action queue of the chart-based renderer.          *)
(***************************************************************************)
EXTENDS Integers, Sequences, FiniteSets, TLC

VARIABLES
    \* ---- layout.js: buildTreeLayout(individuals, relationships, {mode})
    individuals,     \* the individuals array (records id, gender, generation, name)
    relationships,   \* the relationships array (records source, target, type, context)
    pc,              \* position inside buildTreeLayout
    graph,           \* what createGraph returned
    stack,           \* d3.hierarchy: the `nodes` stack of data nodes still to expand
    hnodes,          \* d3.hierarchy: the hierarchy nodes created so far, in pop order
    layout,          \* what buildTreeLayout returned
    \* ---- renderer.js: createTreeRenderer closure state
    rlayout,         \* the layout the renderer was created on
    size,            \* the container's measured size (environment)
    highlightedId,   \* let highlightedId
    currentTransform,\* let currentTransform
    transition,      \* the svg's active zoom transition (its target), or None
    rafQueue,        \* animation-frame callbacks requested and not yet run
    lastCall,        \* history: the last call or event, its argument and its result
    firstFit,        \* history: per container size, the first auto-fit resetView's target
    everFocused,     \* history: focusOnIndividual has found its node at least once
    latestRequest,   \* history: the transform of the latest call of applyTransform no gesture
                     \* has overridden since
    nops,            \* history: number of calls and events so far (bounds the run)
    destroyed,       \* api.destroy() has been called (the ResizeObserver is disconnected)
    \* ---- search: SearchPanel, filterIndividuals, SearchModal and the onSearch /
    \* onSelect callbacks of init()
    panel,           \* which search panel the page is built with
    people,          \* the individuals the search runs on (records id, names, birth)
    treeIds,         \* the ids that are nodes of the layout the tree renderer shows
    form,            \* the values of the panel's inputs
    errors,          \* the messages of the panel's error list
    modal,           \* the result modal: open or not, its summary and its list
    treeCalls,       \* history: the calls made on treeApi, in order
    lastSearch,      \* history: the criteria handed to onSearch and what the filter returned
    nsearches,       \* history: number of submissions so far (bounds the run)
    \* ---- SearchModal: the root element and the callbacks open() and close() defer
    hidden,          \* the root carries the hidden attribute
    openClass,       \* the root carries the class search-modal--open
    frames,          \* animation-frame callbacks open() requested that have not run
    timers,          \* timeouts close() set that have not fired
    lastModalCall,   \* history: the latest of open() and close() called, or "none"
    nmodalcalls,     \* history: number of calls of open() and close() (bounds the run)
    \* ---- the page: init() with its closure, and what it puts in #app
    phase,           \* where init() is: "loading", "ready" or "error"
    response,        \* history: the response fetchData received, None before it
    appContent,      \* what #app holds: the "shell", the "layout" or the "error" panel
    mediaMatches,    \* layoutMediaQuery.matches
    listening,       \* handleLayoutChange is registered on the media query
    currentLayoutMode,
    treeApi,         \* None, or the renderer in use: its serial, layout mode, highlight
    preferredFocusId,
    defaultFocusId,
    layoutBuilds,    \* history: number of calls of buildTreeLayout
    rendererBuilds,  \* history: number of calls of createTreeRenderer
    destroys,        \* history: number of calls of treeApi.destroy()
    nfetches,        \* history: number of calls of fetch
    npageops,        \* history: number of events on the page (bounds the run)
    \* ---- the records of the chart page (main.js) and its add-person form
    records,         \* the record list, in order; a record has an id, parents, children
    recordById,      \* the Map from an id to a record (its position in the list)
    now,             \* what Date.now() returns
    nsubmits,        \* history: number of submissions of the add-person form
    \* ---- the chart-based renderer: its chart and its queue of deferred actions
    chartInstance,   \* handleChartReady has stored the chart
    modelReady,      \* the chart's getModel() returns a model
    pendingActions,  \* the actions waiting for the chart, oldest first
    executed,        \* history: the actions run so far, in the order they ran
    requested,       \* history: the actions handed to runWhenReady, in order
    nrequests        \* history: number of API calls so far (bounds the run)

layoutVars == <<individuals, relationships, pc, graph, stack, hnodes, layout>>
rendererVars == <<rlayout, size, highlightedId, currentTransform, transition,
                  rafQueue, lastCall, firstFit, everFocused, latestRequest, nops,
                  destroyed>>
searchVars == <<panel, people, treeIds, form, errors, modal, treeCalls, lastSearch, nsearches>>
modalVars == <<hidden, openClass, frames, timers, lastModalCall, nmodalcalls>>
appVars == <<phase, response, appContent, mediaMatches, listening, currentLayoutMode,
             treeApi, preferredFocusId, defaultFocusId, layoutBuilds, rendererBuilds,
             destroys, nfetches, npageops>>
recordVars == <<records, recordById, now, nsubmits>>
chartVars == <<chartInstance, modelReady, pendingActions, executed, requested, nrequests>>
pageVars == <<modalVars, appVars, recordVars, chartVars>>
vars == <<individuals, relationships, pc, graph, stack, hnodes, layout,
          rlayout, size, highlightedId, currentTransform, transition,
          rafQueue, lastCall, firstFit, everFocused, latestRequest, nops, destroyed,
          panel, people, treeIds, form, errors, modal, treeCalls, lastSearch, nsearches,
          hidden, openClass, frames, timers, lastModalCall, nmodalcalls,
          phase, response, appContent, mediaMatches, listening, currentLayoutMode,
          treeApi, preferredFocusId, defaultFocusId, layoutBuilds, rendererBuilds,
          destroys, nfetches, npageops,
          records, recordById, now, nsubmits,
          chartInstance, modelReady, pendingActions, executed, requested, nrequests>>

-----------------------------------------------------------------------------
(* Bounds of the model *)

\* longest relationships array explored
MaxRels == 3
\* d3.hierarchy node creations explored before the model stops following the loop
MaxVisits == 6
\* calls and events on a renderer explored
MaxOps == 3
\* submissions of the search form explored
MaxSearches == 1
\* calls of SearchModal.open() and close() explored
MaxModalCalls == 6
\* events on the page explored after init()
MaxPageOps == 3
\* submissions of the add-person form explored
MaxSubmits == 2
\* latest clock value explored (milliseconds after the page's load)
MaxNow == 2
\* API calls on the chart-based renderer explored
MaxRequests == 2

-----------------------------------------------------------------------------
(* Values *)

\* parseGeneration's null
NoGeneration == -1
\* a relationship endpoint that is missing (undefined, null or '')
NoId == ""
\* an id that no individual carries
UnknownId == "x"
\* the synthetic root's id
RootId == "__root__"
\* a relationship without context (undefined)
NoContext == "undefined"

Front(s) == SubSeq(s, 1, Len(s) - 1)
Last(s) == s[Len(s)]
Range(s) == {s[i] : i \in 1..Len(s)}
Count(x, s) == Cardinality({i \in 1..Len(s) : s[i] = x})

RECURSIVE Concat(_)
Concat(ss) == IF ss = <<>> THEN <<>> ELSE Head(ss) \o Concat(Tail(ss))

-----------------------------------------------------------------------------
(* layout.js *)

BRANCH_COLORS == 6

\* Number.parseInt(rawValue, 10) on the generation hint; the data carries integers
\* or nothing
parseGeneration(rawValue) ==
    IF rawValue = NoGeneration THEN NoGeneration ELSE rawValue

\* ensureNode over the individuals array: the Map nodesById, as the sequence of
\* its keys in insertion order (a person without id gets no node, a repeated id
\* keeps its first node)
RECURSIVE NodeOrder(_)
NodeOrder(inds) ==
    IF inds = <<>> THEN <<>>
    ELSE LET rest == NodeOrder(Front(inds))
             p == Last(inds)
         IN IF p.id = NoId \/ p.id \in Range(rest) THEN rest ELSE Append(rest, p.id)

\* node.person for the node of id `id`: the first individual carrying the id
PersonOf(inds, id) ==
    inds[CHOOSE i \in 1..Len(inds) :
            /\ inds[i].id = id
            /\ \A j \in 1..(i - 1) : inds[j].id # id]

\* NAME_COLLATOR.compare on the labels: names are modelled by their collation key
Collate(nameA, nameB) ==
    IF nameA < nameB THEN -1 ELSE IF nameA > nameB THEN 1 ELSE 0

compareNodes(inds, a, b) ==
    LET genA == parseGeneration(PersonOf(inds, a).generation)
        genB == parseGeneration(PersonOf(inds, b).generation)
    IN IF genA # NoGeneration /\ genB # NoGeneration /\ genA # genB THEN genA - genB
       ELSE IF genA # NoGeneration /\ genB = NoGeneration THEN -1
       ELSE IF genA = NoGeneration /\ genB # NoGeneration THEN 1
       ELSE Collate(PersonOf(inds, a).name, PersonOf(inds, b).name)

\* Array.prototype.sort(compareNodes) on an array of node ids: a stable sort
RECURSIVE InsertNode(_, _, _)
InsertNode(inds, x, s) ==
    IF s = <<>> THEN <<x>>
    ELSE IF compareNodes(inds, Last(s), x) <= 0 THEN Append(s, x)
    ELSE Append(InsertNode(inds, x, Front(s)), Last(s))

RECURSIVE SortNodes(_, _)
SortNodes(inds, s) ==
    IF s = <<>> THEN <<>>
    ELSE InsertNode(inds, Last(s), SortNodes(inds, Front(s)))

\* validEntries.sort((a, b) => compareNodes(a.parentNode, b.parentNode))
RECURSIVE InsertEntry(_, _, _)
InsertEntry(inds, e, s) ==
    IF s = <<>> THEN <<e>>
    ELSE IF compareNodes(inds, Last(s).parentNode, e.parentNode) <= 0 THEN Append(s, e)
    ELSE Append(InsertEntry(inds, e, Front(s)), Last(s))

RECURSIVE SortEntries(_, _)
SortEntries(inds, s) ==
    IF s = <<>> THEN <<>>
    ELSE InsertEntry(inds, Last(s), SortEntries(inds, Front(s)))

\* the gender test of selectPrimaryParent's find callback
IsMale(gender) ==
    /\ gender # ""
    /\ gender \in {"m", "M", "male", "Male", "MALE"}

\* the comparator of selectPrimaryParent's ranking sort
RankCompare(genA, genB) ==
    IF genA = NoGeneration /\ genB = NoGeneration THEN 0
    ELSE IF genA = NoGeneration THEN 1
    ELSE IF genB = NoGeneration THEN -1
    ELSE genA - genB

RECURSIVE InsertRanked(_, _, _)
InsertRanked(inds, e, s) ==
    IF s = <<>> THEN <<e>>
    ELSE IF RankCompare(parseGeneration(PersonOf(inds, Last(s).parentNode).generation),
                        parseGeneration(PersonOf(inds, e.parentNode).generation)) <= 0
         THEN Append(s, e)
    ELSE Append(InsertRanked(inds, e, Front(s)), Last(s))

RECURSIVE Ranked(_, _)
Ranked(inds, s) ==
    IF s = <<>> THEN <<>>
    ELSE InsertRanked(inds, Last(s), Ranked(inds, Front(s)))

\* selectPrimaryParent without the search for a male entry
selectPrimaryParentNoGender(inds, entries) ==
    Ranked(inds, entries)[1].parentNode

\* selectPrimaryParent(entries): the id of the chosen parent node (entries is
\* never empty where createGraph calls it)
selectPrimaryParent(inds, entries) ==
    LET males == SelectSeq(entries, LAMBDA e : IsMale(PersonOf(inds, e.parentNode).gender))
    IN IF males # <<>> THEN males[1].parentNode
       ELSE Ranked(inds, entries)[1].parentNode

\* RelationBucket without the early return on an unresolved endpoint: only a
\* resolved parent-child relation is grouped, every other one is kept as additional
RelationBucketUnresolvedKept(nodes, relation) ==
    IF relation.source = NoId \/ relation.target = NoId THEN "dropped"
    ELSE IF /\ relation.type = "parent-child"
            /\ relation.source \in Range(nodes)
            /\ relation.target \in Range(nodes)
         THEN "parent-child"
    ELSE "additional"

\* the guards of the relationships.forEach callback: which bucket a relation goes to
\* ("dropped": one of the early returns)
RelationBucket(nodes, relation) ==
    IF relation.source = NoId \/ relation.target = NoId THEN "dropped"
    ELSE IF relation.source \notin Range(nodes) \/ relation.target \notin Range(nodes)
         THEN "dropped"
    ELSE IF relation.type = "parent-child" THEN "parent-child"
    ELSE "additional"

\* parentRelationsByChild.get(child): the entries pushed for the child, in input order
ParentEntries(nodes, rels, child) ==
    LET kept == SelectSeq(rels, LAMBDA r : /\ RelationBucket(nodes, r) = "parent-child"
                                           /\ r.target = child)
    IN [i \in 1..Len(kept) |-> [relation |-> kept[i], parentNode |-> kept[i].source]]

\* the keys of the Map parentRelationsByChild, in insertion order
RECURSIVE ChildOrder(_, _)
ChildOrder(nodes, rels) ==
    IF rels = <<>> THEN <<>>
    ELSE LET rest == ChildOrder(nodes, Front(rels))
             r == Last(rels)
         IN IF RelationBucket(nodes, r) = "parent-child" /\ r.target \notin Range(rest)
            THEN Append(rest, r.target)
            ELSE rest

\* validEntries of a child, after validEntries.sort(...)
SortedEntries(inds, nodes, rels, child) ==
    SortEntries(inds, ParentEntries(nodes, rels, child))

\* primaryParent of a child that has entries
PrimaryParentOf(inds, nodes, rels, child) ==
    selectPrimaryParent(inds, SortedEntries(inds, nodes, rels, child))

\* SecondaryOf without the test entry.parentNode === primaryParent: every entry
\* becomes a secondary relationship
SecondaryOfEveryEntry(entries, primaryParent, childId) ==
    [i \in 1..Len(entries) |->
        [type |-> "relationship",
         source |-> entries[i].parentNode,
         target |-> childId,
         context |-> IF entries[i].relation.context = NoContext
                     THEN "secondary-parent"
                     ELSE entries[i].relation.context]]

\* the validEntries.forEach callback: the secondary relationships pushed for a child
SecondaryOf(entries, primaryParent, childId) ==
    LET others == SelectSeq(entries, LAMBDA e : e.parentNode # primaryParent)
    IN [i \in 1..Len(others) |->
           [type |-> "relationship",
            source |-> others[i].parentNode,
            target |-> childId,
            context |-> IF others[i].relation.context = NoContext
                        THEN "secondary-parent"
                        ELSE others[i].relation.context]]

\* Roots without the fallback `if (roots.length === 0)`
RootsWithoutFallback(inds, nodes, parents) ==
    SortNodes(inds, SelectSeq(nodes, LAMBDA n : Cardinality(parents[n]) = 0))

\* collectRoots(nodesById), with the fallback of createGraph, then roots.sort
Roots(inds, nodes, parents) ==
    LET roots == SelectSeq(nodes, LAMBDA n : Cardinality(parents[n]) = 0)
    IN SortNodes(inds, IF Len(roots) = 0 THEN nodes ELSE roots)

createGraph(inds, rels) ==
    LET nodes == NodeOrder(inds)
        childOrder == ChildOrder(nodes, rels)
        primary == [c \in Range(childOrder) |-> PrimaryParentOf(inds, nodes, rels, c)]
        \* primaryParent.children.push(childNode), child after child, then
        \* node.children.sort(compareNodes)
        children == [n \in Range(nodes) |->
                        SortNodes(inds, SelectSeq(childOrder, LAMBDA c : primary[c] = n))]
        parents == [n \in Range(nodes) |->
                        IF n \in Range(childOrder) THEN {primary[n]} ELSE {}]
        secondary == Concat([i \in 1..Len(childOrder) |->
                        SecondaryOf(SortedEntries(inds, nodes, rels, childOrder[i]),
                                    primary[childOrder[i]], childOrder[i])])
        additional == SelectSeq(rels, LAMBDA r : RelationBucket(nodes, r) = "additional")
    IN [nodes |-> nodes,
        children |-> children,
        parents |-> parents,
        roots |-> Roots(inds, nodes, parents),
        additionalRelationships |-> additional,
        secondaryRelationships |-> secondary]

\* (node) => node.children, the accessor handed to d3.hierarchy
ChildrenOf(g, id) == IF id = RootId THEN g.roots ELSE g.children[id]

\* hierarchyRoot.each(...): breadth-first order, i.e. the hierarchy nodes level by
\* level, each level in creation order
RECURSIVE InsertByDepth(_, _)
InsertByDepth(h, s) ==
    IF s = <<>> THEN <<h>>
    ELSE IF Last(s).depth <= h.depth THEN Append(s, h)
    ELSE Append(InsertByDepth(h, Front(s)), Last(s))

RECURSIVE BreadthFirst(_)
BreadthFirst(hs) ==
    IF hs = <<>> THEN <<>>
    ELSE InsertByDepth(Last(hs), BreadthFirst(Front(hs)))

\* annotateBranch(node, branchIndex), on the map id -> branchIndex built so far
RECURSIVE annotateBranch(_, _, _, _)
RECURSIVE AnnotateEach(_, _, _, _)
annotateBranch(g, id, branchIndex, acc) ==
    AnnotateEach(g, ChildrenOf(g, id), branchIndex,
                 [x \in (DOMAIN acc) \cup {id} |-> IF x = id THEN branchIndex ELSE acc[x]])
AnnotateEach(g, ids, branchIndex, acc) ==
    IF ids = <<>> THEN acc
    ELSE AnnotateEach(g, Tail(ids), branchIndex,
                      annotateBranch(g, Head(ids), branchIndex, acc))

\* annotateBranches(virtualRoot)
RECURSIVE AnnotateTop(_, _, _, _)
AnnotateTop(g, top, index, acc) ==
    IF top = <<>> THEN acc
    ELSE AnnotateTop(g, Tail(top), index + 1,
                     annotateBranch(g, Head(top), index % BRANCH_COLORS, acc))

annotateBranches(g) == AnnotateTop(g, g.roots, 0, <<>>)

\* assignGeneration without the depth: every undeclared generation is 0
assignGenerationFlat(inds, id, depth) ==
    LET declaredGeneration == parseGeneration(PersonOf(inds, id).generation)
    IN IF declaredGeneration # NoGeneration THEN declaredGeneration ELSE 0

\* assignGeneration without the declared generation: the depth always
assignGenerationDepthOnly(inds, id, depth) ==
    IF depth > 0 THEN depth ELSE 0

\* assignGenerations, for one node
assignGeneration(inds, id, depth) ==
    LET declaredGeneration == parseGeneration(PersonOf(inds, id).generation)
    IN IF declaredGeneration # NoGeneration THEN declaredGeneration
       ELSE IF depth > 0 THEN depth ELSE 0

DEFAULT_RADIAL_GAP == 220
RADIAL_PADDING == 280
NODE_BOUNDS_PADDING == 32
CARTESIAN_HORIZONTAL_GAP == 260
CARTESIAN_VERTICAL_GAP == 140
CARTESIAN_HORIZONTAL_PADDING == 260
CARTESIAN_VERTICAL_PADDING == 200

Modes == {"fan", "hierarchical"}

MinOf(S) == CHOOSE x \in S : \A y \in S : x <= y
MaxOf(S) == CHOOSE x \in S : \A y \in S : y <= x

\* d3's tree() and cluster() are not part of the repository: the coordinates
\* they give the i-th hierarchy node are an input, one of a few placements.
\* tree().nodeSize([140, 260]) puts a node of depth d at y = 260 d; its x is a
\* multiple of the vertical gap.
Placements == {-1, 0, 1}
TreeAt(placement, i, depth) ==
    [x |-> placement * i * CARTESIAN_VERTICAL_GAP, y |-> CARTESIAN_HORIZONTAL_GAP * depth]

\* cluster() gives an angle and a radial distance; the angles explored are
\* those whose direction (cos, sin)(FAN_START_ANGLE + x - PI / 2) is one of
\* these, in fifths
Directions == <<[cos5 |-> 0, sin5 |-> -5], [cos5 |-> 3, sin5 |-> -4],
                [cos5 |-> -4, sin5 |-> 3], [cos5 |-> 5, sin5 |-> 0]>>
ClusterAt(placement, i, depth) ==
    [direction |-> Directions[((placement + i) % 4) + 1],
     y |-> DEFAULT_RADIAL_GAP * (1 + ((placement + i) % 2))]

\* hierarchyRoot.height: the depth of the deepest hierarchy node
HierarchyHeight(hs) == MaxOf({0} \cup {hs[i].depth : i \in 1..Len(hs)})

\* canvasRadius of buildFanLayout
CanvasRadius(hs) ==
    LET effectiveDepth == MaxOf({1, HierarchyHeight(hs) - 1})
        radialLimit == MaxOf({DEFAULT_RADIAL_GAP, effectiveDepth * DEFAULT_RADIAL_GAP})
    IN RADIAL_PADDING + radialLimit

\* cartesianX, cartesianY of the i-th node pushed by the each() pass
Cartesian(mode, placement, bfs, hs, i) ==
    IF mode = "hierarchical"
    THEN [x |-> TreeAt(placement, i, bfs[i].depth).y,
          y |-> TreeAt(placement, i, bfs[i].depth).x]
    ELSE LET polar == ClusterAt(placement, i, bfs[i].depth)
             radialDistance == RADIAL_PADDING + polar.y
         IN [x |-> CanvasRadius(hs) + (radialDistance * polar.direction.cos5) \div 5,
             y |-> CanvasRadius(hs) + (radialDistance * polar.direction.sin5) \div 5]

\* stats after the each() pass, with the fallback for an empty pass
Stats(cartesian) ==
    IF Len(cartesian) = 0 THEN [minX |-> 0, maxX |-> 0, minY |-> 0, maxY |-> 0]
    ELSE [minX |-> MinOf({cartesian[i].x : i \in 1..Len(cartesian)}),
          maxX |-> MaxOf({cartesian[i].x : i \in 1..Len(cartesian)}),
          minY |-> MinOf({cartesian[i].y : i \in 1..Len(cartesian)}),
          maxY |-> MaxOf({cartesian[i].y : i \in 1..Len(cartesian)})]

\* offsetX, offsetY of buildHierarchicalLayout; buildFanLayout moves nothing
Offset(mode, stats) ==
    IF mode = "hierarchical"
    THEN [x |-> CARTESIAN_HORIZONTAL_PADDING - stats.minX,
          y |-> CARTESIAN_VERTICAL_PADDING - stats.minY]
    ELSE [x |-> 0, y |-> 0]

\* the x and y of a data node when the layout is returned: those of its last
\* visit by the each() pass, moved by nodes.forEach(node.x += offsetX) once
\* for each time the node was pushed
FinalPosition(nodes, cartesian, offset, id) ==
    LET last == CHOOSE i \in 1..Len(nodes) :
                    nodes[i] = id /\ \A j \in (i + 1)..Len(nodes) : nodes[j] # id
        pushes == Cardinality({i \in 1..Len(nodes) : nodes[i] = id})
    IN [x |-> cartesian[last].x + pushes * offset.x,
        y |-> cartesian[last].y + pushes * offset.y]

\* bounds without the padding around the nodes
layoutBoundsUnpadded(mode, stats, offset) ==
    [minX |-> stats.minX + offset.x, maxX |-> stats.maxX + offset.x,
     minY |-> stats.minY + offset.y, maxY |-> stats.maxY + offset.y]

\* bounds of buildFanLayout (355-360) and of buildHierarchicalLayout (445-460)
layoutBounds(mode, stats, offset) ==
    [minX |-> stats.minX + offset.x - NODE_BOUNDS_PADDING,
     maxX |-> stats.maxX + offset.x + NODE_BOUNDS_PADDING,
     minY |-> stats.minY + offset.y - NODE_BOUNDS_PADDING,
     maxY |-> stats.maxY + offset.y + NODE_BOUNDS_PADDING]

layoutDimensions(mode, stats, hs) ==
    IF mode = "hierarchical"
    THEN [width |-> MaxOf({1, stats.maxX - stats.minX}) + CARTESIAN_HORIZONTAL_PADDING * 2,
          height |-> MaxOf({1, stats.maxY - stats.minY}) + CARTESIAN_VERTICAL_PADDING * 2]
    ELSE [width |-> CanvasRadius(hs) * 2, height |-> CanvasRadius(hs) * 2]

\* the links built from the coordinates of the each() pass, before the nodes
\* are moved by the offset
buildHierarchicalLinksBeforeOffset(g, nodes, position, cartesian) ==
    Concat([i \in 1..Len(nodes) |->
              LET children == ChildrenOf(g, nodes[i])
              IN [j \in 1..Len(children) |->
                    [type |-> "parent-child", sourceId |-> nodes[i],
                     targetId |-> children[j],
                     source |-> cartesian[i],
                     target |-> position[children[j]]]]])

\* buildHierarchicalLinks(nodes)
buildHierarchicalLinks(g, nodes, position, cartesian) ==
    Concat([i \in 1..Len(nodes) |->
              LET children == ChildrenOf(g, nodes[i])
              IN [j \in 1..Len(children) |->
                    [type |-> "parent-child", sourceId |-> nodes[i],
                     targetId |-> children[j],
                     source |-> position[nodes[i]],
                     target |-> position[children[j]]]]])

\* buildRelationshipLinks(nodesById, relationships): a node has coordinates once
\* the layout pass has placed it
buildRelationshipLinks(g, position, rels) ==
    LET kept == SelectSeq(rels, LAMBDA r : /\ r.source \in Range(g.nodes)
                                           /\ r.target \in Range(g.nodes)
                                           /\ r.source \in DOMAIN position
                                           /\ r.target \in DOMAIN position)
    IN [i \in 1..Len(kept) |->
          [type |-> kept[i].type,
           context |-> IF kept[i].context = NoContext THEN "null" ELSE kept[i].context,
           sourceId |-> kept[i].source, targetId |-> kept[i].target,
           source |-> position[kept[i].source],
           target |-> position[kept[i].target]]]

\* the part of buildFanLayout / buildHierarchicalLayout after the hierarchy is
\* built: the each() pass, the offset, the bounds, annotateBranches,
\* assignGenerations, the links and collectRenderableNodes
FinishedLayout(inds, g, hs, mode, placement) ==
    LET bfs == SelectSeq(BreadthFirst(hs), LAMBDA h : h.id # RootId)
        nodes == [i \in 1..Len(bfs) |-> bfs[i].id]
        depth == [id \in Range(nodes) |->
                    LET h == bfs[CHOOSE i \in 1..Len(bfs) :
                                   /\ bfs[i].id = id
                                   /\ \A j \in (i + 1)..Len(bfs) : bfs[j].id # id]
                    IN IF h.depth - 1 > 0 THEN h.depth - 1 ELSE 0]
        cartesian == [i \in 1..Len(bfs) |-> Cartesian(mode, placement, bfs, hs, i)]
        stats == Stats(cartesian)
        offset == Offset(mode, stats)
        position == [id \in Range(nodes) |-> FinalPosition(nodes, cartesian, offset, id)]
    IN [nodes |-> nodes,
        nodeById |-> position,
        depth |-> depth,
        branchIndex |-> annotateBranches(g),
        generation |-> [id \in Range(nodes) |-> assignGeneration(inds, id, depth[id])],
        hierarchicalLinks |-> buildHierarchicalLinks(g, nodes, position, cartesian),
        relationshipLinks |->
            buildRelationshipLinks(g, position,
                g.additionalRelationships \o g.secondaryRelationships),
        dimensions |-> layoutDimensions(mode, stats, hs),
        bounds |-> layoutBounds(mode, stats, offset),
        mode |-> mode]

-----------------------------------------------------------------------------
(* Inputs of buildTreeLayout *)

Person(id, gender, generation, name) ==
    [id |-> id, gender |-> gender, generation |-> generation, name |-> name]

Relation(source, target, type) ==
    [source |-> source, target |-> target, type |-> type, context |-> NoContext]

\* the individuals arrays explored: two possible parents a and b, of either gender,
\* with or without declared generations, with different or equal names, and a
\* third individual c; a family without c; nobody
Families ==
    {<<Person("a", ga, gens[1], 1), Person("b", gb, gens[2], 2), Person("c", "", NoGeneration, 3)>> :
        ga \in {"F", "M"}, gb \in {"F", "M"}, gens \in {<<NoGeneration, NoGeneration>>, <<2, 1>>}}
    \cup {<<Person("a", "F", NoGeneration, 1), Person("b", "F", NoGeneration, 1),
            Person("c", "", NoGeneration, 3)>>,
          <<Person("a", "F", NoGeneration, 1), Person("b", "F", 1, 2),
            Person("c", "", NoGeneration, 3)>>,
          <<Person("a", "M", NoGeneration, 1), Person("b", "F", NoGeneration, 2)>>,
          <<>>}

\* the relationship records explored
RelationPool ==
    {Relation("a", "c", "parent-child"), Relation("b", "c", "parent-child"),
     Relation("a", "b", "parent-child"), Relation("b", "a", "parent-child"),
     Relation("a", "a", "parent-child"),
     Relation(UnknownId, "c", "parent-child"), Relation("a", NoId, "parent-child"),
     Relation("a", "b", "spouse")}

RECURSIVE SeqsUpTo(_, _)
SeqsUpTo(S, n) ==
    IF n = 0 THEN {<<>>}
    ELSE LET shorter == SeqsUpTo(S, n - 1)
         IN shorter \cup {Append(s, x) : s \in {t \in shorter : Len(t) = n - 1}, x \in S}

-----------------------------------------------------------------------------
(* buildTreeLayout as a process *)

\* the search is not part of the layout's or the renderer's run
NoSearch ==
    /\ panel = ""
    /\ people = <<>>
    /\ treeIds = {}
    /\ form = <<>>
    /\ errors = <<>>
    /\ modal = <<>>
    /\ treeCalls = <<>>
    /\ lastSearch = <<>>
    /\ nsearches = 0

\* the modal's deferred callbacks are not part of the other runs
NoModal ==
    /\ hidden = TRUE
    /\ openClass = FALSE
    /\ frames = 0
    /\ timers = 0
    /\ lastModalCall = "none"
    /\ nmodalcalls = 0

\* init() is not part of the other runs
NoApp ==
    /\ phase = "off"
    /\ response = <<>>
    /\ appContent = "shell"
    /\ mediaMatches = FALSE
    /\ listening = FALSE
    /\ currentLayoutMode = "fan"
    /\ treeApi = <<>>
    /\ preferredFocusId = ""
    /\ defaultFocusId = ""
    /\ layoutBuilds = 0
    /\ rendererBuilds = 0
    /\ destroys = 0
    /\ nfetches = 0
    /\ npageops = 0

\* the add-person form is not part of the other runs
NoRecords ==
    /\ records = <<>>
    /\ recordById = <<>>
    /\ now = 0
    /\ nsubmits = 0

\* the chart-based renderer is not part of the other runs
NoChart ==
    /\ chartInstance = FALSE
    /\ modelReady = FALSE
    /\ pendingActions = <<>>
    /\ executed = <<>>
    /\ requested = <<>>
    /\ nrequests = 0

\* what the other runs leave out
NoPage == NoModal /\ NoApp /\ NoRecords /\ NoChart

NoGraph == [nodes |-> <<>>]
NoLayout == [nodes |-> <<>>]

\* the renderer is not part of the layout run
NoRenderer ==
    /\ rlayout = NoLayout
    /\ size = <<0, 0>>
    /\ highlightedId = NoId
    /\ currentTransform = <<>>
    /\ transition = <<>>
    /\ rafQueue = 0
    /\ lastCall = <<>>
    /\ firstFit = <<>>
    /\ everFocused = FALSE
    /\ latestRequest = <<>>
    /\ nops = 0
    /\ destroyed = FALSE

InitLayout ==
    /\ individuals \in Families
    /\ relationships \in SeqsUpTo(RelationPool, MaxRels)
    /\ pc = "start"
    /\ graph = NoGraph
    /\ stack = <<>>
    /\ hnodes = <<>>
    /\ layout = NoLayout
    /\ NoRenderer
    /\ NoSearch
    /\ NoPage

\* const graph = createGraph(individuals, relationships); then hierarchy(virtualRoot, ...)
\* starts with nodes = [root]
CreateGraph ==
    /\ pc = "start"
    /\ graph' = createGraph(individuals, relationships)
    /\ stack' = <<[id |-> RootId, depth |-> 0]>>
    /\ pc' = "hierarchy"
    /\ UNCHANGED <<individuals, relationships, hnodes, layout>>
    /\ UNCHANGED rendererVars
    /\ UNCHANGED searchVars
    /\ UNCHANGED pageVars

\* one turn of d3.hierarchy's loop `while (node = nodes.pop())`: the children of the
\* popped node's data are wrapped in new hierarchy nodes and pushed, last child first
HierarchyStep ==
    /\ pc = "hierarchy"
    /\ stack # <<>>
    /\ Len(hnodes) < MaxVisits
    /\ LET node == Last(stack)
           childs == ChildrenOf(graph, node.id)
           n == Len(childs)
       IN /\ stack' = Front(stack) \o
                      [i \in 1..n |-> [id |-> childs[n + 1 - i], depth |-> node.depth + 1]]
          /\ hnodes' = Append(hnodes, node)
    /\ UNCHANGED <<individuals, relationships, pc, graph, layout>>
    /\ UNCHANGED rendererVars
    /\ UNCHANGED searchVars
    /\ UNCHANGED pageVars

\* the hierarchy is built: the rest of buildFanLayout / buildHierarchicalLayout
FinishLayout(mode, placement) ==
    /\ pc = "hierarchy"
    /\ stack = <<>>
    /\ layout' = FinishedLayout(individuals, graph, hnodes, mode, placement)
    /\ pc' = "done"
    /\ UNCHANGED <<individuals, relationships, graph, stack, hnodes>>
    /\ UNCHANGED rendererVars
    /\ UNCHANGED searchVars
    /\ UNCHANGED pageVars

NextLayout ==
    \/ CreateGraph
    \/ HierarchyStep
    \/ \E mode \in Modes, placement \in Placements : FinishLayout(mode, placement)

SpecLayout == InitLayout /\ [][NextLayout]_vars

-----------------------------------------------------------------------------
(* Claims about the graph builder *)

\* the ids carried by the individuals
IndividualIds == {individuals[i].id : i \in 1..Len(individuals)} \ {NoId}

\* relationship i has a source and a target and both match an individual
Resolved(i) ==
    /\ relationships[i].source \in IndividualIds
    /\ relationships[i].target \in IndividualIds

\* the parent-child relationships of a child whose source and target both exist
ParentRelationsOf(child) ==
    {i \in 1..Len(relationships) :
        /\ Resolved(i)
        /\ relationships[i].type = "parent-child"
        /\ relationships[i].target = child}

\* the candidate parents of a child
CandidatesOf(child) == {relationships[i].source : i \in ParentRelationsOf(child)}

\* the hierarchical edges parent -> child of the graph
HierarchicalEdgesInto(child) ==
    {<<n, j>> \in Range(graph.nodes) \X (1..Len(graph.nodes)) :
        j <= Len(graph.children[n]) /\ graph.children[n][j] = child}

\* the secondary relationships recorded for a child
SecondaryInto(child) ==
    {i \in 1..Len(graph.secondaryRelationships) :
        /\ graph.secondaryRelationships[i].target = child
        /\ graph.secondaryRelationships[i].type = "relationship"}

GraphBuilt == pc # "start"

\* C1 as stated: a child with N >= 2 resolved parent-child relationships has
\* exactly one hierarchical edge and exactly N-1 secondary relationships
C1_OnePrimaryAndNMinus1Secondary ==
    GraphBuilt =>
        \A c \in IndividualIds :
            LET N == Cardinality(ParentRelationsOf(c))
            IN N >= 2 =>
                /\ Cardinality(HierarchicalEdgesInto(c)) = 1
                /\ Cardinality(graph.parents[c]) = 1
                /\ Cardinality(SecondaryInto(c)) = N - 1

\* C1 amended: a child with N >= 2 resolved parent-child relationships has exactly
\* one hierarchical edge, from its primary parent, and one secondary relationship
\* for each of the N relationships whose source is not the primary parent; that
\* is N-1 when the N relationships come from N different parents
C1_OnePrimaryOthersSecondary ==
    GraphBuilt =>
        \A c \in IndividualIds :
            LET N == Cardinality(ParentRelationsOf(c))
            IN N >= 2 =>
                /\ Cardinality(HierarchicalEdgesInto(c)) = 1
                /\ Cardinality(graph.parents[c]) = 1
                /\ \A p \in graph.parents[c] :
                    /\ p \in CandidatesOf(c)
                    /\ \E j \in 1..Len(graph.children[p]) : graph.children[p][j] = c
                    /\ Cardinality(SecondaryInto(c)) =
                         Cardinality({i \in ParentRelationsOf(c) : relationships[i].source # p})
                    /\ \A i \in SecondaryInto(c) :
                         /\ graph.secondaryRelationships[i].source \in CandidatesOf(c) \ {p}
                /\ (Cardinality(CandidatesOf(c)) = N => Cardinality(SecondaryInto(c)) = N - 1)

\* C1 witness: the graph is built for a child with two relationships from two
\* different parents, one promoted and one recorded as secondary
C1_Witness ==
    /\ GraphBuilt
    /\ \E c \in IndividualIds :
        /\ Cardinality(ParentRelationsOf(c)) >= 2
        /\ Cardinality(CandidatesOf(c)) = Cardinality(ParentRelationsOf(c))
        /\ Cardinality(graph.parents[c]) = 1
        /\ Cardinality(SecondaryInto(c)) >= 1

\* C2 as stated, for the hierarchy traversal: no node is visited more than once
\* while d3.hierarchy walks the graph from the synthetic root, which is what
\* termination on a finite graph amounts to (a cycle among the nodes under the
\* synthetic root shows as a repeated visit)
C2_VisitedAtMostOnce ==
    \A n \in IndividualIds \cup {RootId} :
        Cardinality({i \in 1..Len(hnodes) : hnodes[i].id = n}) <= 1

\* the sibling order key of a candidate: declared generations first, ascending,
\* then the name
KeyLess(a, b) ==
    LET pa == PersonOf(individuals, a)
        pb == PersonOf(individuals, b)
    IN \/ pa.generation # NoGeneration /\ pb.generation = NoGeneration
       \/ /\ pa.generation # NoGeneration /\ pb.generation # NoGeneration
          /\ pa.generation < pb.generation
       \/ /\ pa.generation = pb.generation
          /\ pa.name < pb.name

KeyEqual(a, b) == ~KeyLess(a, b) /\ ~KeyLess(b, a)

\* the position in the input of the first relationship that makes p a candidate
FirstRelationOf(p, child) ==
    CHOOSE i \in ParentRelationsOf(child) :
        /\ relationships[i].source = p
        /\ \A j \in ParentRelationsOf(child) : relationships[j].source = p => i <= j

MaleCandidates(child) ==
    {p \in CandidatesOf(child) : PersonOf(individuals, p).gender \in {"M", "m", "male"}}

DeclaredCandidates(child) ==
    {p \in CandidatesOf(child) : PersonOf(individuals, p).generation # NoGeneration}

\* C3 as stated: a male candidate wins; otherwise the lowest declared generation
\* wins; otherwise the candidate first in the input order of the relationships wins
C3_MaleThenGenerationThenInputOrder ==
    GraphBuilt =>
        \A c \in IndividualIds : \A p \in graph.parents[c] :
            IF MaleCandidates(c) # {} THEN p \in MaleCandidates(c)
            ELSE IF DeclaredCandidates(c) # {}
                 THEN /\ p \in DeclaredCandidates(c)
                      /\ \A q \in DeclaredCandidates(c) :
                            PersonOf(individuals, p).generation
                                <= PersonOf(individuals, q).generation
            ELSE \A q \in CandidatesOf(c) : FirstRelationOf(p, c) <= FirstRelationOf(q, c)

\* C3 amended: the primary parent is the first candidate in sibling order
\* (declared generation ascending, undeclared last, then name collation) among the
\* male candidates when there is one, among all the candidates otherwise; the
\* input order of the relationships decides only between candidates that this
\* order does not separate
C3_MaleThenSiblingOrder ==
    GraphBuilt =>
        \A c \in IndividualIds : \A p \in graph.parents[c] :
            LET pool == IF MaleCandidates(c) # {} THEN MaleCandidates(c)
                        ELSE CandidatesOf(c)
            IN /\ p \in pool
               /\ \A q \in pool :
                    /\ ~KeyLess(q, p)
                    /\ KeyEqual(q, p) => FirstRelationOf(p, c) <= FirstRelationOf(q, c)

\* C3 witness: a female candidate with the lower generation comes first in the
\* input and the male candidate is the primary parent
C3_Witness ==
    /\ GraphBuilt
    /\ \E c \in IndividualIds : \E p \in graph.parents[c] : \E q \in CandidatesOf(c) :
        /\ p \in MaleCandidates(c)
        /\ q \notin MaleCandidates(c)
        /\ KeyLess(q, p)
        /\ FirstRelationOf(q, c) < FirstRelationOf(p, c)

\* the relationships array without its i-th element
RemoveAt(s, i) == SubSeq(s, 1, i - 1) \o SubSeq(s, i + 1, Len(s))

\* the ids that occur as an endpoint of an edge of the graph
GraphEndpoints ==
    UNION {Range(graph.children[n]) : n \in Range(graph.nodes)}
    \cup Range(graph.roots)
    \cup {graph.secondaryRelationships[i].source : i \in 1..Len(graph.secondaryRelationships)}
    \cup {graph.secondaryRelationships[i].target : i \in 1..Len(graph.secondaryRelationships)}
    \cup {graph.additionalRelationships[i].source : i \in 1..Len(graph.additionalRelationships)}
    \cup {graph.additionalRelationships[i].target : i \in 1..Len(graph.additionalRelationships)}

\* C9: a relationship whose source or target is missing or matches no individual
\* leaves no trace: the graph is the graph of the input without that relationship,
\* no edge of the graph has an endpoint that is not an individual, and the layout
\* holds links between individuals only
C9_UnresolvedRelationDropped ==
    /\ GraphBuilt =>
        /\ \A i \in 1..Len(relationships) :
              ~Resolved(i) =>
                  graph = createGraph(individuals, RemoveAt(relationships, i))
        /\ GraphEndpoints \subseteq IndividualIds
        /\ Len(graph.secondaryRelationships) + Len(graph.additionalRelationships)
             + Cardinality(UNION {HierarchicalEdgesInto(c) : c \in IndividualIds})
             <= Cardinality({i \in 1..Len(relationships) : Resolved(i)})
    /\ pc = "done" =>
        \A i \in 1..Len(layout.relationshipLinks) :
            /\ layout.relationshipLinks[i].sourceId \in IndividualIds
            /\ layout.relationshipLinks[i].targetId \in IndividualIds

\* C9 witness: a finished layout of an input that holds a relationship with an
\* unknown source, one with a missing target, and a resolved one that made an edge
C9_Witness ==
    /\ pc = "done"
    /\ \E i, j, k \in 1..Len(relationships) :
        /\ relationships[i].source = UnknownId
        /\ relationships[j].target = NoId
        /\ Resolved(k)
    /\ Len(layout.hierarchicalLinks) >= 1

\* C10: an individual that no resolved parent-child relationship targets is a
\* direct child of the synthetic root; the synthetic root of a non-empty set of
\* individuals has a child; when every individual has a parent, every individual
\* is a direct child of the synthetic root
C10_ParentlessUnderSyntheticRoot ==
    GraphBuilt =>
        LET parentless == {n \in IndividualIds : ParentRelationsOf(n) = {}}
            top == Range(ChildrenOf(graph, RootId))
        IN /\ parentless \subseteq top
           /\ IndividualIds # {} => top # {}
           /\ parentless = {} => top = IndividualIds
           /\ parentless # {} => top = parentless
           /\ \A n \in top : Count(n, ChildrenOf(graph, RootId)) = 1

\* C10 witness: some individuals have a parent, the others are exactly the
\* children of the synthetic root
C10_Witness ==
    /\ GraphBuilt
    /\ \E n \in IndividualIds : ParentRelationsOf(n) # {}
    /\ \E n \in IndividualIds : ParentRelationsOf(n) = {}
    /\ Range(ChildrenOf(graph, RootId)) = {n \in IndividualIds : ParentRelationsOf(n) = {}}

-----------------------------------------------------------------------------
(* Claims about the generations of a finished layout *)

LayoutDone == pc = "done"

\* the individual declares a generation
Declares(id) == PersonOf(individuals, id).generation # NoGeneration

\* the hierarchical edges parent -> child between the nodes of the layout
PrimaryEdges ==
    {e \in Range(layout.nodes) \X Range(layout.nodes) : e[1] \in graph.parents[e[2]]}

\* C11 as stated: along every hierarchical edge whose child declares no
\* generation, the child's generation is its parent's generation plus 1
C11_ChildIsParentPlusOne ==
    LayoutDone =>
        \A e \in PrimaryEdges :
            ~Declares(e[2]) => layout.generation[e[2]] = layout.generation[e[1]] + 1

\* C11 amended: along every hierarchical edge whose child declares no generation,
\* the child's generation is the depth of the child, which is the depth of its
\* parent plus 1; it is the parent's generation plus 1 exactly when the parent's
\* generation is the parent's depth, as it is when the parent declares none
C11_ChildIsParentDepthPlusOne ==
    LayoutDone =>
        \A e \in PrimaryEdges :
            ~Declares(e[2]) =>
                /\ layout.generation[e[2]] = layout.depth[e[2]]
                /\ layout.depth[e[2]] = layout.depth[e[1]] + 1
                /\ ~Declares(e[1]) => layout.generation[e[2]] = layout.generation[e[1]] + 1
                /\ (layout.generation[e[2]] = layout.generation[e[1]] + 1)
                      <=> (layout.generation[e[1]] = layout.depth[e[1]])

\* C11 witness: individuals a and c that declare no generation, the single
\* relationship a -> c, and a finished layout with c one generation below a
C11_Witness ==
    /\ LayoutDone
    /\ Len(relationships) = 1
    /\ relationships[1].source = "a" /\ relationships[1].target = "c"
    /\ PrimaryEdges = {<<"a", "c">>}
    /\ ~Declares("a") /\ ~Declares("c")
    /\ layout.generation["c"] = layout.generation["a"] + 1
    /\ Len(layout.hierarchicalLinks) = 1
    /\ graph.secondaryRelationships = <<>>

\* the depth of a node in the derived hierarchy: 0 under the synthetic root, the
\* depth of the primary parent plus 1 elsewhere
RECURSIVE DepthOf(_)
DepthOf(id) ==
    IF graph.parents[id] = {} THEN 0
    ELSE DepthOf(CHOOSE p \in graph.parents[id] : TRUE) + 1

\* C12: in a finished layout the generation of a node is the generation its
\* individual declares when it declares one, and otherwise the depth of the node,
\* 0 for the children of the synthetic root and the primary parent's depth plus 1
\* for the others
C12_DeclaredGenerationWinsOverDepth ==
    LayoutDone =>
        \A n \in Range(layout.nodes) :
            /\ Declares(n) => layout.generation[n] = PersonOf(individuals, n).generation
            /\ ~Declares(n) => layout.generation[n] = DepthOf(n)
            /\ (n \in Range(graph.roots)) <=> (DepthOf(n) = 0)

\* C12 witness: a finished layout with a node whose declared generation differs
\* from its depth and an undeclared node below the top level
C12_Witness ==
    /\ LayoutDone
    /\ \E n, m \in Range(layout.nodes) :
        /\ Declares(n)
        /\ layout.generation[n] # DepthOf(n)
        /\ ~Declares(m)
        /\ layout.generation[m] >= 1

-----------------------------------------------------------------------------
(* Claims about the nodes, links and bounds of a finished layout *)

\* the nodes of the layout that have a primary parent
NodesWithPrimaryParent == {n \in Range(layout.nodes) : graph.parents[n] # {}}

\* the secondary and non-hierarchical relationships of the graph between
\* nodes that the layout has placed
RetainedRelationships ==
    SelectSeq(graph.additionalRelationships \o graph.secondaryRelationships,
              LAMBDA r : r.source \in DOMAIN layout.nodeById /\ r.target \in DOMAIN layout.nodeById)

\* the link joins two nodes of nodeById and carries their final coordinates
LinkIsSnapshot(link) ==
    /\ link.sourceId \in DOMAIN layout.nodeById
    /\ link.targetId \in DOMAIN layout.nodeById
    /\ link.source = layout.nodeById[link.sourceId]
    /\ link.target = layout.nodeById[link.targetId]

\* C22: hierarchicalLinks holds exactly one link per node of the output that
\* has a primary parent, from that parent to the node; relationshipLinks holds
\* one link per secondary or non-hierarchical relationship between placed
\* nodes, in their order; every link names two nodes of nodeById and carries
\* the x and y these nodes have in the same output.
C22_LinksAreSnapshotOfNodes ==
    LayoutDone =>
        /\ Len(layout.hierarchicalLinks) = Cardinality(NodesWithPrimaryParent)
        /\ \A n \in NodesWithPrimaryParent :
              \E i \in 1..Len(layout.hierarchicalLinks) :
                  /\ layout.hierarchicalLinks[i].targetId = n
                  /\ layout.hierarchicalLinks[i].sourceId \in graph.parents[n]
        /\ Len(layout.relationshipLinks) = Len(RetainedRelationships)
        /\ \A i \in 1..Len(layout.relationshipLinks) :
              /\ layout.relationshipLinks[i].sourceId = RetainedRelationships[i].source
              /\ layout.relationshipLinks[i].targetId = RetainedRelationships[i].target
              /\ layout.relationshipLinks[i].type = RetainedRelationships[i].type
              /\ LinkIsSnapshot(layout.relationshipLinks[i])
        /\ \A i \in 1..Len(layout.hierarchicalLinks) :
              LinkIsSnapshot(layout.hierarchicalLinks[i])

\* C22 witness: a hierarchical layout whose nodes were moved by the offset
\* after the each() pass, with a parent-child link and a relationship link
C22_Witness ==
    /\ LayoutDone
    /\ layout.mode = "hierarchical"
    /\ Len(layout.hierarchicalLinks) >= 1
    /\ Len(layout.relationshipLinks) >= 1
    /\ \E n \in Range(layout.nodes) : layout.nodeById[n].y = CARTESIAN_VERTICAL_PADDING
    /\ \E n \in Range(layout.nodes) : layout.nodeById[n].y > CARTESIAN_VERTICAL_PADDING
    /\ layout.hierarchicalLinks[1].source.y # layout.hierarchicalLinks[1].target.y

\* C23: the synthetic root is no node of the output, and bounds is the
\* bounding box of the nodes' coordinates padded by NODE_BOUNDS_PADDING: every
\* node lies at least the padding inside each side, and a node lies exactly
\* the padding inside each side when there is a node.
C23_BoundsArePaddedBoundingBox ==
    LayoutDone =>
        /\ RootId \notin Range(layout.nodes)
        /\ RootId \notin DOMAIN layout.nodeById
        /\ \A n \in Range(layout.nodes) :
              /\ layout.bounds.minX + NODE_BOUNDS_PADDING <= layout.nodeById[n].x
              /\ layout.nodeById[n].x <= layout.bounds.maxX - NODE_BOUNDS_PADDING
              /\ layout.bounds.minY + NODE_BOUNDS_PADDING <= layout.nodeById[n].y
              /\ layout.nodeById[n].y <= layout.bounds.maxY - NODE_BOUNDS_PADDING
        /\ layout.nodes # <<>> =>
              /\ \E n \in Range(layout.nodes) :
                    layout.nodeById[n].x = layout.bounds.minX + NODE_BOUNDS_PADDING
              /\ \E n \in Range(layout.nodes) :
                    layout.nodeById[n].x = layout.bounds.maxX - NODE_BOUNDS_PADDING
              /\ \E n \in Range(layout.nodes) :
                    layout.nodeById[n].y = layout.bounds.minY + NODE_BOUNDS_PADDING
              /\ \E n \in Range(layout.nodes) :
                    layout.nodeById[n].y = layout.bounds.maxY - NODE_BOUNDS_PADDING

\* C23 witness: a fan layout of three nodes at different places
C23_Witness ==
    /\ LayoutDone
    /\ layout.mode = "fan"
    /\ Len(layout.nodes) = 3
    /\ layout.bounds.maxX - layout.bounds.minX > 2 * NODE_BOUNDS_PADDING
    /\ layout.bounds.maxY - layout.bounds.minY > 2 * NODE_BOUNDS_PADDING

\* C25: every individual with a non-empty id is exactly once among the nodes
\* of the layout, and in nodeById, whatever the relationships are
C25_EveryIndividualExactlyOnce ==
    LayoutDone =>
        \A id \in IndividualIds :
            /\ Cardinality({i \in 1..Len(layout.nodes) : layout.nodes[i] = id}) = 1
            /\ id \in DOMAIN layout.nodeById

-----------------------------------------------------------------------------
(* Numbers of the viewport: JavaScript numbers are modelled by exact fractions
   [n |-> numerator, d |-> denominator > 0] in lowest terms *)

RECURSIVE GCD(_, _)
GCD(a, b) == IF b = 0 THEN a ELSE GCD(b, a % b)

Abs(i) == IF i < 0 THEN -i ELSE i

Q(n, d) ==
    LET g == GCD(Abs(n), Abs(d))
        sign == IF d < 0 THEN -1 ELSE 1
    IN [n |-> sign * (n \div g), d |-> sign * (d \div g)]

QInt(i) == [n |-> i, d |-> 1]
QAdd(a, b) ==
    LET g == GCD(a.d, b.d)
    IN Q(a.n * (b.d \div g) + b.n * (a.d \div g), (a.d \div g) * b.d)
QNeg(a) == [n |-> -a.n, d |-> a.d]
QSub(a, b) == QAdd(a, QNeg(b))
QMul(a, b) ==
    LET g1 == GCD(Abs(a.n), b.d)
        g2 == GCD(Abs(b.n), a.d)
    IN Q((a.n \div g1) * (b.n \div g2), (a.d \div g2) * (b.d \div g1))
QDiv(a, b) == QMul(a, IF b.n < 0 THEN [n |-> -b.d, d |-> -b.n] ELSE [n |-> b.d, d |-> b.n])
QLess(a, b) ==
    LET g == GCD(a.d, b.d)
    IN a.n * (b.d \div g) < b.n * (a.d \div g)
QLeq(a, b) == ~QLess(b, a)
QMin(a, b) == IF QLess(b, a) THEN b ELSE a
QMax(a, b) == IF QLess(a, b) THEN b ELSE a
QHalf(a) == QMul(a, [n |-> 1, d |-> 2])

-----------------------------------------------------------------------------
(* renderer.js *)

ZOOM_EXTENT == <<Q(12, 100), QInt(36)>>
FOCUS_MIN_SCALE == Q(21, 10)
FOCUS_TARGET_SPAN == 260
AUTO_FIT_PADDING == Q(35, 100)
AUTO_FIT_MIN_SCALE == Q(9, 10)

\* d3.zoomIdentity
zoomIdentity == [k |-> QInt(1), x |-> QInt(0), y |-> QInt(0)]

\* d3.zoomIdentity.translate(translateX, translateY).scale(scale)
TranslateScale(translateX, translateY, scale) ==
    [k |-> QMul(QInt(1), scale),
     x |-> QAdd(QInt(0), QMul(QInt(1), translateX)),
     y |-> QAdd(QInt(0), QMul(QInt(1), translateY))]

\* no transform requested / no transition in flight
None == <<>>

\* getContainerSize(): Math.max(rect.width || 0, clientWidth || 0, offsetWidth || 0, 1)
getContainerSize(sz) ==
    [width |-> IF sz[1] > 1 THEN sz[1] ELSE 1,
     height |-> IF sz[2] > 1 THEN sz[2] ELSE 1]

\* computeAutoFitTransform without `scale = Math.max(AUTO_FIT_MIN_SCALE, scale)`
computeAutoFitTransformNoMinimum(lay, sz) ==
    LET width == QInt(getContainerSize(sz).width)
        height == QInt(getContainerSize(sz).height)
        bounds == lay.bounds
        layoutWidth == IF bounds.maxX - bounds.minX > 1 THEN bounds.maxX - bounds.minX ELSE 1
        layoutHeight == IF bounds.maxY - bounds.minY > 1 THEN bounds.maxY - bounds.minY ELSE 1
        paddedWidth == QMul(QInt(layoutWidth), QAdd(QInt(1), AUTO_FIT_PADDING))
        paddedHeight == QMul(QInt(layoutHeight), QAdd(QInt(1), AUTO_FIT_PADDING))
        ratio == QMin(QDiv(width, paddedWidth), QDiv(height, paddedHeight))
        positive == IF QLeq(ratio, QInt(0)) THEN QInt(1) ELSE ratio
        scale == QMax(ZOOM_EXTENT[1], QMin(ZOOM_EXTENT[2], positive))
        centerX == QHalf(QInt(bounds.minX + bounds.maxX))
        centerY == QHalf(QInt(bounds.minY + bounds.maxY))
        translateX == QSub(QHalf(width), QMul(centerX, scale))
        translateY == QSub(QHalf(height), QMul(centerY, scale))
    IN TranslateScale(translateX, translateY, scale)

\* computeAutoFitTransform aligning the top left corner of the bounds with the
\* top left corner of the viewport instead of the centres
computeAutoFitTransformTopLeft(lay, sz) ==
    LET width == QInt(getContainerSize(sz).width)
        height == QInt(getContainerSize(sz).height)
        bounds == lay.bounds
        layoutWidth == IF bounds.maxX - bounds.minX > 1 THEN bounds.maxX - bounds.minX ELSE 1
        layoutHeight == IF bounds.maxY - bounds.minY > 1 THEN bounds.maxY - bounds.minY ELSE 1
        paddedWidth == QMul(QInt(layoutWidth), QAdd(QInt(1), AUTO_FIT_PADDING))
        paddedHeight == QMul(QInt(layoutHeight), QAdd(QInt(1), AUTO_FIT_PADDING))
        ratio == QMin(QDiv(width, paddedWidth), QDiv(height, paddedHeight))
        positive == IF QLeq(ratio, QInt(0)) THEN QInt(1) ELSE ratio
        fitted == QMax(AUTO_FIT_MIN_SCALE, positive)
        scale == QMax(ZOOM_EXTENT[1], QMin(ZOOM_EXTENT[2], fitted))
        translateX == QNeg(QMul(QInt(bounds.minX), scale))
        translateY == QNeg(QMul(QInt(bounds.minY), scale))
    IN TranslateScale(translateX, translateY, scale)

\* computeAutoFitTransform(); layout.js always hands finite bounds
computeAutoFitTransform(lay, sz) ==
    LET width == QInt(getContainerSize(sz).width)
        height == QInt(getContainerSize(sz).height)
        bounds == lay.bounds
        layoutWidth == IF bounds.maxX - bounds.minX > 1 THEN bounds.maxX - bounds.minX ELSE 1
        layoutHeight == IF bounds.maxY - bounds.minY > 1 THEN bounds.maxY - bounds.minY ELSE 1
        paddedWidth == QMul(QInt(layoutWidth), QAdd(QInt(1), AUTO_FIT_PADDING))
        paddedHeight == QMul(QInt(layoutHeight), QAdd(QInt(1), AUTO_FIT_PADDING))
        ratio == QMin(QDiv(width, paddedWidth), QDiv(height, paddedHeight))
        positive == IF QLeq(ratio, QInt(0)) THEN QInt(1) ELSE ratio
        fitted == QMax(AUTO_FIT_MIN_SCALE, positive)
        scale == QMax(ZOOM_EXTENT[1], QMin(ZOOM_EXTENT[2], fitted))
        centerX == QHalf(QInt(bounds.minX + bounds.maxX))
        centerY == QHalf(QInt(bounds.minY + bounds.maxY))
        translateX == QSub(QHalf(width), QMul(centerX, scale))
        translateY == QSub(QHalf(height), QMul(centerY, scale))
    IN TranslateScale(translateX, translateY, scale)

\* applyTransform without svg.interrupt(), were nothing else to interrupt either:
\* the transitions in flight stay and the new one queues behind them
applyTransformWithoutInterrupt(cur, inflight, targetTransform, animate) ==
    IF animate
    THEN [currentTransform |-> cur,
          transition |-> Append(inflight, [target |-> targetTransform])]
    ELSE [currentTransform |-> targetTransform, transition |-> inflight]

\* applyTransform(targetTransform, {animate}) with transitions `inflight` on the
\* svg: svg.interrupt() ends them, then zoomBehavior.transform runs on a new
\* transition (animate) or on the svg itself, which emits the zoom event at once and
\* onZoom stores event.transform
applyTransform(cur, inflight, targetTransform, animate) ==
    IF animate
    THEN [currentTransform |-> cur,
          transition |-> <<[target |-> targetTransform]>>]
    ELSE [currentTransform |-> targetTransform, transition |-> None]

\* focusTargetScale without the current scale: Math.min(ZOOM_EXTENT[1], baseScale)
focusTargetScaleIgnoringCurrent(sz, cur) ==
    LET cs == getContainerSize(sz)
        shortestSide == IF cs.width < cs.height THEN cs.width ELSE cs.height
        desiredScale == IF shortestSide > 0 THEN Q(shortestSide, FOCUS_TARGET_SPAN)
                        ELSE FOCUS_MIN_SCALE
        baseScale == QMax(FOCUS_MIN_SCALE, desiredScale)
    IN QMin(ZOOM_EXTENT[2], baseScale)

\* the scale focusOnIndividual asks for
focusTargetScale(sz, cur) ==
    LET cs == getContainerSize(sz)
        shortestSide == IF cs.width < cs.height THEN cs.width ELSE cs.height
        desiredScale == IF shortestSide > 0 THEN Q(shortestSide, FOCUS_TARGET_SPAN)
                        ELSE FOCUS_MIN_SCALE
        baseScale == QMax(FOCUS_MIN_SCALE, desiredScale)
    IN QMin(ZOOM_EXTENT[2], QMax(baseScale, cur.k))

\* focusOnIndividual with setHighlight(personId) ahead of the `if (!node)` return
focusOnIndividualHighlightFirst(lay, sz, hl, cur, personId) ==
    IF personId \notin DOMAIN lay.nodeById
    THEN [result |-> FALSE, highlightedId |-> personId, request |-> None]
    ELSE LET node == lay.nodeById[personId]
             cs == getContainerSize(sz)
             targetScale == focusTargetScale(sz, cur)
             translateX == QSub(QHalf(QInt(cs.width)), QMul(QInt(node.x), targetScale))
             translateY == QSub(QHalf(QInt(cs.height)), QMul(QInt(node.y), targetScale))
         IN [result |-> TRUE,
             highlightedId |-> personId,
             request |-> <<TranslateScale(translateX, translateY, targetScale)>>]

\* focusOnIndividual(personId, {animate}): the value returned, the highlighted id
\* left by setHighlight and the transform handed to applyTransform
focusOnIndividual(lay, sz, hl, cur, personId) ==
    IF personId \notin DOMAIN lay.nodeById
    THEN [result |-> FALSE, highlightedId |-> hl, request |-> None]
    ELSE LET node == lay.nodeById[personId]
             cs == getContainerSize(sz)
             targetScale == focusTargetScale(sz, cur)
             translateX == QSub(QHalf(QInt(cs.width)), QMul(QInt(node.x), targetScale))
             translateY == QSub(QHalf(QInt(cs.height)), QMul(QInt(node.y), targetScale))
         IN [result |-> TRUE,
             highlightedId |-> personId,
             request |-> <<TranslateScale(translateX, translateY, targetScale)>>]

\* adjustZoomTargetScale without the clamp to ZOOM_EXTENT
adjustZoomTargetScaleUnclamped(cur, factor) ==
    QMul(cur.k, factor)

\* the scale adjustZoom asks for
adjustZoomTargetScale(cur, factor) ==
    QMax(ZOOM_EXTENT[1], QMin(ZOOM_EXTENT[2], QMul(cur.k, factor)))

\* adjustZoom(factor): the transform handed to applyTransform
adjustZoom(sz, cur, factor) ==
    LET cs == getContainerSize(sz)
        targetScale == adjustZoomTargetScale(cur, factor)
        centerX == QDiv(QSub(QHalf(QInt(cs.width)), cur.x), cur.k)
        centerY == QDiv(QSub(QHalf(QInt(cs.height)), cur.y), cur.k)
        translateX == QSub(QHalf(QInt(cs.width)), QMul(centerX, targetScale))
        translateY == QSub(QHalf(QInt(cs.height)), QMul(centerY, targetScale))
    IN TranslateScale(translateX, translateY, targetScale)

\* resetView that forgets the highlighted node: the highlight is cleared and the
\* view auto-fits
resetViewDroppingHighlight(lay, sz, hl, cur) ==
    [highlightedId |-> NoId, request |-> <<computeAutoFitTransform(lay, sz)>>,
     focused |-> FALSE]

\* resetView whose auto-fit never zooms out of the current scale
resetViewKeepingScale(lay, sz, hl, cur) ==
    LET focus == focusOnIndividual(lay, sz, hl, cur, hl)
        fit == computeAutoFitTransform(lay, sz)
    IN IF hl # NoId /\ focus.result
       THEN [highlightedId |-> focus.highlightedId, request |-> focus.request,
             focused |-> TRUE]
       ELSE [highlightedId |-> hl,
             request |-> <<[fit EXCEPT !.k = QMin(ZOOM_EXTENT[2], QMax(fit.k, cur.k))]>>,
             focused |-> FALSE]

\* resetView({animate}): what it returns through focusOnIndividual when a node is
\* highlighted and found, the auto-fit transform otherwise
resetView(lay, sz, hl, cur) ==
    LET focus == focusOnIndividual(lay, sz, hl, cur, hl)
    IN IF hl # NoId /\ focus.result
       THEN [highlightedId |-> focus.highlightedId, request |-> focus.request,
             focused |-> TRUE]
       ELSE [highlightedId |-> hl, request |-> <<computeAutoFitTransform(lay, sz)>>,
             focused |-> FALSE]

\* highlightIndividual that moves the view whatever focusView says
highlightIndividualAlwaysFocus(lay, sz, hl, cur, personId, focusView) ==
    IF personId = NoId
    THEN [result |-> FALSE, highlightedId |-> NoId, request |-> None]
    ELSE IF personId \in DOMAIN lay.nodeById
         THEN focusOnIndividual(lay, sz, hl, cur, personId)
    ELSE [result |-> FALSE, highlightedId |-> personId, request |-> None]

\* api.highlightIndividual(personId, {focusView}) of the renderer that takes the
\* option: the value returned, the highlighted id left and the transform asked for
highlightIndividual(lay, sz, hl, cur, personId, focusView) ==
    IF personId = NoId
    THEN [result |-> FALSE, highlightedId |-> NoId, request |-> None]
    ELSE IF personId \in DOMAIN lay.nodeById /\ focusView
         THEN focusOnIndividual(lay, sz, hl, cur, personId)
    ELSE [result |-> personId \in DOMAIN lay.nodeById,
          highlightedId |-> personId,
          request |-> None]

-----------------------------------------------------------------------------
(* A renderer on a finished layout *)

\* layouts as buildHierarchicalLayout returns them: of no individual, and of a
\* parent a with its child b
SampleLayouts ==
    {[nodeById |-> <<>>,
      bounds |-> [minX |-> 228, maxX |-> 292, minY |-> 168, maxY |-> 232],
      dimensions |-> [width |-> 521, height |-> 401]],
     [nodeById |-> ("a" :> [x |-> 260, y |-> 200]) @@ ("b" :> [x |-> 520, y |-> 200]),
      bounds |-> [minX |-> 228, maxX |-> 552, minY |-> 168, maxY |-> 232],
      dimensions |-> [width |-> 780, height |-> 401]]}

\* the container sizes explored: not laid out yet (measured 0 x 0), and a size for
\* which the auto-fit scales of the sample layouts are whole numbers (5 and 20)
Sizes == {<<0, 0>>, <<2187, 1728>>}

\* the ids handed to the API: two individuals, an id of no individual, and null
ApiIds == {"a", "b", UnknownId}

\* the scales a wheel or pinch gesture leaves, inside scaleExtent
GestureScales == {Q(7, 50), QInt(30)}

\* the layout run is not part of the renderer's run
NoLayoutRun ==
    /\ individuals = <<>>
    /\ relationships = <<>>
    /\ pc = "done"
    /\ graph = NoGraph
    /\ stack = <<>>
    /\ hnodes = <<>>
    /\ layout = NoLayout

Call(op, arg, result) == [op |-> op, arg |-> arg, result |-> result]

\* the transform the view ends in once the transition in flight, if any, is over
Settled == IF transition = None THEN currentTransform ELSE transition[1].target

\* createTreeRenderer(...): highlightedId = null, currentTransform = zoomIdentity,
\* svg.call(zoomBehavior), resetView(), resizeObserver.observe(containerElement)
InitRenderer ==
    /\ NoLayoutRun
    /\ rlayout \in SampleLayouts
    /\ size \in Sizes
    /\ highlightedId = NoId
    /\ currentTransform = zoomIdentity
    /\ transition = applyTransform(zoomIdentity, None,
                                   resetView(rlayout, size, NoId, zoomIdentity).request[1],
                                   TRUE).transition
    /\ rafQueue = 0
    /\ lastCall = Call("createTreeRenderer", NoId, "auto-fit")
    /\ firstFit = [sz \in Sizes |->
                     IF sz = size THEN <<computeAutoFitTransform(rlayout, size)>> ELSE None]
    /\ everFocused = FALSE
    /\ latestRequest = <<computeAutoFitTransform(rlayout, size)>>
    /\ nops = 0
    /\ destroyed = FALSE
    /\ NoSearch
    /\ NoPage

\* api.focusOnIndividual(personId, {animate}), also handleNodeActivate
FocusOnIndividual(personId, animate) ==
    /\ nops < MaxOps
    /\ ~destroyed
    /\ LET focus == focusOnIndividual(rlayout, size, highlightedId, currentTransform, personId)
           applied == applyTransform(currentTransform, transition, focus.request[1], animate)
       IN /\ highlightedId' = focus.highlightedId
          /\ IF focus.request = None
             THEN UNCHANGED <<currentTransform, transition>>
             ELSE /\ currentTransform' = applied.currentTransform
                  /\ transition' = applied.transition
          /\ lastCall' = Call("focusOnIndividual", personId,
                              IF focus.result THEN "true" ELSE "false")
          /\ everFocused' = (everFocused \/ focus.result)
          /\ latestRequest' = IF focus.request = None THEN latestRequest ELSE focus.request
    /\ nops' = nops + 1
    /\ UNCHANGED <<destroyed, rlayout, size, rafQueue, firstFit>>
    /\ UNCHANGED layoutVars
    /\ UNCHANGED searchVars
    /\ UNCHANGED pageVars

\* api.highlightIndividual(personId): setHighlight(personId)
HighlightIndividual(personId) ==
    /\ nops < MaxOps
    /\ ~destroyed
    /\ highlightedId' = personId
    /\ lastCall' = Call("highlightIndividual", personId, "undefined")
    /\ nops' = nops + 1
    /\ UNCHANGED <<destroyed, rlayout, size, currentTransform, transition, rafQueue, firstFit,
                   everFocused, latestRequest>>
    /\ UNCHANGED layoutVars
    /\ UNCHANGED searchVars
    /\ UNCHANGED pageVars

\* api.highlightIndividual(personId, {focusView}) where the api takes the option
\* (animate left at its default)
HighlightIndividualWithOptions(personId, focusView) ==
    /\ nops < MaxOps
    /\ ~destroyed
    /\ LET done == highlightIndividual(rlayout, size, highlightedId, currentTransform,
                                       personId, focusView)
           applied == applyTransform(currentTransform, transition, done.request[1], TRUE)
       IN /\ highlightedId' = done.highlightedId
          /\ IF done.request = None
             THEN UNCHANGED <<currentTransform, transition>>
             ELSE /\ currentTransform' = applied.currentTransform
                  /\ transition' = applied.transition
          /\ lastCall' = Call(IF focusView THEN "highlightIndividual{focusView:true}"
                              ELSE "highlightIndividual{focusView:false}",
                              personId, IF done.result THEN "true" ELSE "false")
          /\ everFocused' = (everFocused \/ done.request # None)
          /\ latestRequest' = IF done.request = None THEN latestRequest ELSE done.request
    /\ nops' = nops + 1
    /\ UNCHANGED <<destroyed, rlayout, size, rafQueue, firstFit>>
    /\ UNCHANGED layoutVars
    /\ UNCHANGED searchVars
    /\ UNCHANGED pageVars

\* api.zoomIn() / api.zoomOut(): adjustZoom(1.25) / adjustZoom(0.8)
Zoom(op, factor) ==
    /\ nops < MaxOps
    /\ ~destroyed
    /\ LET applied == applyTransform(currentTransform, transition,
                                     adjustZoom(size, currentTransform, factor), TRUE)
       IN /\ currentTransform' = applied.currentTransform
          /\ transition' = applied.transition
    /\ latestRequest' = <<adjustZoom(size, currentTransform, factor)>>
    /\ lastCall' = Call(op, NoId, "undefined")
    /\ nops' = nops + 1
    /\ UNCHANGED <<destroyed, rlayout, size, highlightedId, rafQueue, firstFit, everFocused>>
    /\ UNCHANGED layoutVars
    /\ UNCHANGED searchVars
    /\ UNCHANGED pageVars

ZoomIn == Zoom("zoomIn", Q(125, 100))

ZoomOut == Zoom("zoomOut", Q(8, 10))

\* the body of resetView({animate}) on the renderer's state
RunResetView(animate) ==
    LET reset == resetView(rlayout, size, highlightedId, currentTransform)
        applied == applyTransform(currentTransform, transition, reset.request[1], animate)
    IN /\ highlightedId' = reset.highlightedId
       /\ currentTransform' = applied.currentTransform
       /\ transition' = applied.transition
       /\ everFocused' = (everFocused \/ reset.focused)
       /\ latestRequest' = reset.request
       /\ firstFit' = IF ~reset.focused /\ firstFit[size] = None
                      THEN [firstFit EXCEPT ![size] = reset.request]
                      ELSE firstFit
       /\ lastCall' = Call("resetView", NoId, IF reset.focused THEN "focus" ELSE "auto-fit")

\* api.resetView({animate})
ResetView(animate) ==
    /\ nops < MaxOps
    /\ ~destroyed
    /\ RunResetView(animate)
    /\ nops' = nops + 1
    /\ UNCHANGED <<destroyed, rlayout, size, rafQueue>>
    /\ UNCHANGED layoutVars
    /\ UNCHANGED searchVars
    /\ UNCHANGED pageVars

\* the container is resized: the ResizeObserver callback requests an animation frame
Resize(newSize) ==
    /\ nops < MaxOps
    /\ ~destroyed
    /\ newSize # size
    /\ size' = newSize
    /\ rafQueue' = rafQueue + 1
    /\ lastCall' = Call("resize", NoId, "undefined")
    /\ nops' = nops + 1
    /\ UNCHANGED <<destroyed, rlayout, highlightedId, currentTransform, transition, firstFit,
                   everFocused, latestRequest>>
    /\ UNCHANGED layoutVars
    /\ UNCHANGED searchVars
    /\ UNCHANGED pageVars

\* api.destroy(): resizeObserver?.disconnect(), and nothing else; the animation
\* frames already requested stay requested, and the owner drops the renderer
Destroy ==
    /\ nops < MaxOps
    /\ ~destroyed
    /\ destroyed' = TRUE
    /\ lastCall' = Call("destroy", NoId, "undefined")
    /\ nops' = nops + 1
    /\ UNCHANGED <<rlayout, size, highlightedId, currentTransform, transition, rafQueue,
                   firstFit, everFocused, latestRequest>>
    /\ UNCHANGED layoutVars
    /\ UNCHANGED searchVars
    /\ UNCHANGED pageVars

\* a requested animation-frame callback runs: resetView({animate: false})
AnimationFrame ==
    /\ rafQueue > 0
    /\ RunResetView(FALSE)
    /\ rafQueue' = rafQueue - 1
    /\ UNCHANGED <<destroyed, rlayout, size, nops>>
    /\ UNCHANGED layoutVars
    /\ UNCHANGED searchVars
    /\ UNCHANGED pageVars

\* a wheel or pinch gesture on the svg (zoomBehavior): the transition in flight is
\* interrupted and the zoom event carries the new scale about the pointer, here
\* the svg's origin
Gesture(scale) ==
    /\ nops < MaxOps
    /\ ~destroyed
    /\ currentTransform' =
          [k |-> scale,
           x |-> QMul(currentTransform.x, QDiv(scale, currentTransform.k)),
           y |-> QMul(currentTransform.y, QDiv(scale, currentTransform.k))]
    /\ transition' = None
    /\ latestRequest' = None
    /\ lastCall' = Call("gesture", NoId, "undefined")
    /\ nops' = nops + 1
    /\ UNCHANGED <<destroyed, rlayout, size, highlightedId, rafQueue, firstFit, everFocused>>
    /\ UNCHANGED layoutVars
    /\ UNCHANGED searchVars
    /\ UNCHANGED pageVars

\* the transition in flight runs to its end: its last zoom event carries the target
\* (the interpolated transforms of the frames before it are not modelled)
TransitionEnd ==
    /\ transition # None
    /\ currentTransform' = transition[1].target
    /\ transition' = Tail(transition)
    /\ UNCHANGED <<destroyed, rlayout, size, highlightedId, rafQueue, lastCall, firstFit,
                   everFocused, latestRequest, nops>>
    /\ UNCHANGED layoutVars
    /\ UNCHANGED searchVars
    /\ UNCHANGED pageVars

NextRenderer ==
    \/ \E personId \in ApiIds, animate \in BOOLEAN : FocusOnIndividual(personId, animate)
    \/ \E personId \in ApiIds \cup {NoId} : HighlightIndividual(personId)
    \/ \E personId \in ApiIds \cup {NoId}, focusView \in BOOLEAN :
          HighlightIndividualWithOptions(personId, focusView)
    \/ ZoomIn
    \/ ZoomOut
    \/ \E animate \in BOOLEAN : ResetView(animate)
    \/ \E newSize \in Sizes : Resize(newSize)
    \/ Destroy
    \/ AnimationFrame
    \/ \E scale \in GestureScales : Gesture(scale)
    \/ TransitionEnd

SpecRenderer == InitRenderer /\ [][NextRenderer]_vars

-----------------------------------------------------------------------------
(* What the viewport operations guarantee *)

InZoomRange(scale) == QLeq(ZOOM_EXTENT[1], scale) /\ QLeq(scale, ZOOM_EXTENT[2])

FocusStep == nops' = nops + 1 /\ lastCall'.op = "focusOnIndividual"

\* the step is a run of resetView, called or from the resize callback
ResetStep == lastCall'.op = "resetView" /\ (nops' # nops \/ rafQueue' # rafQueue)

\* transform t shows the point (px, py) of the layout at the centre of the viewport
CentresOn(t, px, py) ==
    LET cs == getContainerSize(size)
    IN /\ QAdd(QMul(QInt(px), t.k), t.x) = QHalf(QInt(cs.width))
       /\ QAdd(QMul(QInt(py), t.k), t.y) = QHalf(QInt(cs.height))

\* min(maxZoom, max(FOCUS_MIN_SCALE, shorterViewportSide / FOCUS_TARGET_SPAN, currentScale))
FocusScale(currentScale) ==
    LET cs == getContainerSize(size)
        shorterViewportSide == IF cs.width < cs.height THEN cs.width ELSE cs.height
    IN QMin(ZOOM_EXTENT[2],
            QMax(QMax(FOCUS_MIN_SCALE, Q(shorterViewportSide, FOCUS_TARGET_SPAN)),
                 currentScale))

\* transform t is the focus transform of the node of id, asked for at currentScale
IsFocusTransform(t, id, currentScale) ==
    /\ CentresOn(t, rlayout.nodeById[id].x, rlayout.nodeById[id].y)
    /\ t.k = FocusScale(currentScale)
    /\ QLeq(currentScale, t.k)
    /\ QLeq(FOCUS_MIN_SCALE, t.k)
    /\ QLeq(t.k, ZOOM_EXTENT[2])

\* C5: focusOnIndividual with an id that is not a node of the layout returns false
\* and changes neither the transform, nor the transition in flight, nor the
\* highlighted id
C5_UnknownIdLeavesViewAlone ==
    [][(FocusStep /\ lastCall'.arg \notin DOMAIN rlayout.nodeById)
        => /\ lastCall'.result = "false"
           /\ UNCHANGED <<currentTransform, transition, highlightedId>>]_vars

\* C5 witness: focusOnIndividual of an unknown id has returned false while another
\* individual stays highlighted and a transition stays in flight
C5_Witness ==
    /\ lastCall = Call("focusOnIndividual", UnknownId, "false")
    /\ highlightedId \in DOMAIN rlayout.nodeById
    /\ transition # None

\* C6: focusOnIndividual with the id of a node returns true, highlights the id and
\* asks for the transform that shows the node at the centre of the viewport at
\* scale min(36, max(2.1, shorter side / 260, current scale)), which is neither
\* below the current scale, nor below 2.1, nor above 36
C6_FocusCentresAndNeverZoomsOut ==
    [][(FocusStep /\ lastCall'.arg \in DOMAIN rlayout.nodeById)
        => /\ lastCall'.result = "true"
           /\ highlightedId' = lastCall'.arg
           /\ IsFocusTransform(Settled', lastCall'.arg, currentTransform.k)]_vars

\* C6 witness: a focus asked for at scale 30, above the scale the viewport's size
\* gives, has kept the scale of 30 and highlighted the individual
C6_Witness ==
    /\ lastCall.op = "focusOnIndividual"
    /\ lastCall.result = "true"
    /\ highlightedId = lastCall.arg
    /\ Settled.k = QInt(30)
    /\ QLess(Q(getContainerSize(size).height, FOCUS_TARGET_SPAN), Settled.k)

\* transform t is the auto-fit of the layout's bounds in the viewport: the centre
\* of the bounds at the centre of the viewport, at the largest scale at which the
\* padded bounds fit, raised to AUTO_FIT_MIN_SCALE and kept within ZOOM_EXTENT
IsAutoFit(t) ==
    LET cs == getContainerSize(size)
        bounds == rlayout.bounds
        paddedWidth == QMul(QInt(bounds.maxX - bounds.minX), QAdd(QInt(1), AUTO_FIT_PADDING))
        paddedHeight == QMul(QInt(bounds.maxY - bounds.minY), QAdd(QInt(1), AUTO_FIT_PADDING))
        fitsIn == /\ QLeq(QMul(t.k, paddedWidth), QInt(cs.width))
                  /\ QLeq(QMul(t.k, paddedHeight), QInt(cs.height))
        fills == \/ QMul(t.k, paddedWidth) = QInt(cs.width)
                 \/ QMul(t.k, paddedHeight) = QInt(cs.height)
    IN /\ QAdd(QMul(QHalf(QInt(bounds.minX + bounds.maxX)), t.k), t.x) = QHalf(QInt(cs.width))
       /\ QAdd(QMul(QHalf(QInt(bounds.minY + bounds.maxY)), t.k), t.y) = QHalf(QInt(cs.height))
       /\ QLeq(AUTO_FIT_MIN_SCALE, t.k)
       /\ InZoomRange(t.k)
       /\ \/ fitsIn /\ fills
          \/ t.k = AUTO_FIT_MIN_SCALE /\ ~fitsIn
          \/ t.k = ZOOM_EXTENT[2] /\ fitsIn

C8_AutoFitResetIdempotent ==
    (lastCall.op \in {"resetView", "createTreeRenderer"} /\ lastCall.result = "auto-fit")
        => /\ firstFit[size] # None
           /\ Settled = firstFit[size][1]

\* C8 witness: after the first resetView an individual was focused, the highlight
\* was cleared, and resetView has brought the first transform back
C8_Witness ==
    /\ lastCall = Call("resetView", NoId, "auto-fit")
    /\ everFocused
    /\ highlightedId = NoId
    /\ transition = None
    /\ currentTransform = firstFit[size][1]
    /\ nops = 3

\* the image of the layout's bounds under transform t lies inside the viewport
BoundsInsideViewport(t) ==
    LET cs == getContainerSize(size)
        bounds == rlayout.bounds
    IN /\ QLeq(QInt(0), QAdd(QMul(QInt(bounds.minX), t.k), t.x))
       /\ QLeq(QAdd(QMul(QInt(bounds.maxX), t.k), t.x), QInt(cs.width))
       /\ QLeq(QInt(0), QAdd(QMul(QInt(bounds.minY), t.k), t.y))
       /\ QLeq(QAdd(QMul(QInt(bounds.maxY), t.k), t.y), QInt(cs.height))

\* transform t shows the centre of the layout's bounds at the centre of the viewport
BoundsCentred(t) ==
    LET cs == getContainerSize(size)
        bounds == rlayout.bounds
    IN /\ QAdd(QMul(QHalf(QInt(bounds.minX + bounds.maxX)), t.k), t.x) = QHalf(QInt(cs.width))
       /\ QAdd(QMul(QHalf(QInt(bounds.minY + bounds.maxY)), t.k), t.y) = QHalf(QInt(cs.height))

\* the bounds, scaled by AUTO_FIT_MIN_SCALE, are no larger than the viewport
BoundsFitAtMinScale ==
    LET cs == getContainerSize(size)
        bounds == rlayout.bounds
    IN /\ QLeq(QMul(AUTO_FIT_MIN_SCALE, QInt(bounds.maxX - bounds.minX)), QInt(cs.width))
       /\ QLeq(QMul(AUTO_FIT_MIN_SCALE, QInt(bounds.maxY - bounds.minY)), QInt(cs.height))

\* the step is a resetView that retains no focus
AutoFitStep == ResetStep /\ lastCall'.result = "auto-fit"

AnimationFrameStep == rafQueue' = rafQueue - 1

\* C26: once destroy() has been called, an animation-frame callback requested by a
\* resize notification received before the call applies no transform to the svg
\* when it runs: the view and the transition in flight stay as they are
C26_NoTransformAfterDestroy ==
    [][destroyed /\ AnimationFrameStep
          => UNCHANGED <<currentTransform, transition, latestRequest>>]_vars

\* the step is a call of highlightIndividual, of either renderer
HighlightStep ==
    /\ nops' = nops + 1
    /\ lastCall'.op \in {"highlightIndividual", "highlightIndividual{focusView:true}",
                         "highlightIndividual{focusView:false}"}

\* C13 as stated: highlightIndividual with an id that is not a node of the layout
\* returns false and changes neither the highlighted id nor the transform
C13_UnknownHighlightIsNoOp ==
    [][(HighlightStep /\ lastCall'.arg # NoId /\ lastCall'.arg \notin DOMAIN rlayout.nodeById)
        => /\ lastCall'.result = "false"
           /\ UNCHANGED <<highlightedId, currentTransform, transition>>]_vars

\* C14: highlightIndividual of the id of a node, without focusView, makes the id
\* the highlighted id and asks for no transform: the transform and the transition
\* in flight stay as they are; where the api returns a value it returns true
C14_HighlightWithoutFocusKeepsView ==
    [][(/\ HighlightStep
        /\ lastCall'.op # "highlightIndividual{focusView:true}"
        /\ lastCall'.arg \in DOMAIN rlayout.nodeById)
        => /\ highlightedId' = lastCall'.arg
           /\ UNCHANGED <<currentTransform, transition>>
           /\ lastCall'.op = "highlightIndividual{focusView:false}"
                 => lastCall'.result = "true"]_vars

\* C14 witness: b is highlighted through highlightIndividual(b, {focusView: false})
\* while the view stays on a, where an earlier focus put it
C14_Witness ==
    /\ lastCall = Call("highlightIndividual{focusView:false}", "b", "true")
    /\ highlightedId = "b"
    /\ "a" \in DOMAIN rlayout.nodeById
    /\ transition = None
    /\ IsFocusTransform(currentTransform, "a", currentTransform.k)

\* the step is the animation-frame callback of a resize
ResizeFrameStep == rafQueue' = rafQueue - 1

\* C15: a resize of the container leaves the highlighted id as it is, and so does
\* the animation-frame callback it requests, which applies at once, for the size
\* the container has by then, the focus transform of the highlighted node when a
\* node of the layout is highlighted and the auto-fit transform otherwise
C15_ResizeKeepsHighlightAndRefits ==
    [][/\ size' # size => highlightedId' = highlightedId
       /\ ResizeFrameStep
            => /\ highlightedId' = highlightedId
               /\ size' = size
               /\ transition' = None
               /\ IF highlightedId \in DOMAIN rlayout.nodeById
                  THEN IsFocusTransform(currentTransform', highlightedId, currentTransform.k)
                  ELSE IsAutoFit(currentTransform')]_vars

\* C15 witness: the container has left the size the renderer was created at, every
\* resize callback has run, and the view is the focus transform of the
\* highlighted node for the new size
C15_Witness ==
    /\ firstFit[size] = None
    /\ rafQueue = 0
    /\ lastCall = Call("resetView", NoId, "focus")
    /\ highlightedId \in DOMAIN rlayout.nodeById
    /\ transition = None
    /\ IsFocusTransform(currentTransform, highlightedId, currentTransform.k)

\* C16 as stated: the callbacks requested for the next animation frame all run in
\* that frame and each runs resetView once, so at most one may be pending however
\* many resize notifications have arrived
C16_OneRecomputationPerFrame == rafQueue <= 1

\* C17: at most one transition is in flight, and the transform the view is in, or
\* is heading for while a transition is in flight, is the one the latest call of
\* applyTransform was given, until a gesture of the user takes over
C17_OneTransitionTowardsLatestRequest ==
    /\ Len(transition) <= 1
    /\ latestRequest # None => Settled = latestRequest[1]

\* C17 witness: zoomOut was called while the transition of a focus was in flight,
\* so that it scaled the auto-fit scale the view still had, and the view has
\* settled on the zoom's transform, not on the focus
C17_Witness ==
    /\ lastCall.op = "zoomOut"
    /\ everFocused
    /\ nops = 2
    /\ currentTransform.k = QMul(Q(8, 10), AUTO_FIT_MIN_SCALE)
    /\ transition = None
    /\ latestRequest # None
    /\ currentTransform = latestRequest[1]
    /\ highlightedId \in DOMAIN rlayout.nodeById
    /\ ~IsFocusTransform(currentTransform, highlightedId, currentTransform.k)

\* ---------------------------------------------------------------------------
\* The search: search/SearchPanel.js, search/filter.js, the result modal and
\* the callbacks that init() wires between them and the tree renderer.
\*
\* A text is a sequence of characters. The characters are enough to tell the
\* conversions apart: a lower-case letter, its capital, the same letter with
\* a circumflex, a second letter, the space, the hyphen and the digits.
\* ---------------------------------------------------------------------------

ACirc == "a^"
Digits == {"0", "1", "2", "3", "4", "5", "6", "7", "8", "9"}
IsWhitespace(c) == c = " "
\* \p{L}: the letters
IsLetter(c) == c \in {"a", "A", ACirc, "b", "B"}

\* String.prototype.toLowerCase for one character
toLowerCase(c) ==
    CASE c = "A" -> "a"
      [] c = "B" -> "b"
      [] OTHER -> c

\* normalize('NFD').replace(/\p{Diacritic}/gu, '') for one character
stripDiacritic(c) == IF c = ACirc THEN "a" ELSE c

\* the characters of value at the indexes that keep holds
RECURSIVE SelectAt(_, _, _)
SelectAt(value, keep, i) ==
    IF i > Len(value) THEN <<>>
    ELSE (IF keep[i] THEN <<value[i]>> ELSE <<>>) \o SelectAt(value, keep, i + 1)

\* String.prototype.trim
RECURSIVE trim(_)
trim(value) ==
    IF value = <<>> THEN <<>>
    ELSE IF IsWhitespace(Head(value)) THEN trim(Tail(value))
    ELSE IF IsWhitespace(Last(value)) THEN trim(SubSeq(value, 1, Len(value) - 1))
    ELSE value

\* String.prototype.includes
includes(haystack, needle) ==
    \E i \in 1..(Len(haystack) - Len(needle) + 1) :
        SubSeq(haystack, i, i + Len(needle) - 1) = needle

\* the length of the longest prefix of value without whitespace
RECURSIVE WordLength(_)
WordLength(value) ==
    IF value = <<>> \/ IsWhitespace(Head(value)) THEN 0
    ELSE 1 + WordLength(Tail(value))

\* value.split(/\s+/).filter(Boolean)
RECURSIVE SplitWords(_)
SplitWords(value) ==
    IF value = <<>> THEN <<>>
    ELSE IF IsWhitespace(Head(value)) THEN SplitWords(Tail(value))
    ELSE <<SubSeq(value, 1, WordLength(value))>>
             \o SplitWords(SubSeq(value, WordLength(value) + 1, Len(value)))

\* Array.prototype.join(' ')
RECURSIVE JoinWords(_)
JoinWords(tokens) ==
    IF tokens = <<>> THEN <<>>
    ELSE IF Len(tokens) = 1 THEN tokens[1]
    ELSE tokens[1] \o <<" ">> \o JoinWords(Tail(tokens))

\* /^(\d{4})-(\d{2})-(\d{2})$/
ISO_DATE_PATTERN(value) ==
    /\ Len(value) = 10
    /\ \A i \in {1, 2, 3, 4, 6, 7, 9, 10} : value[i] \in Digits
    /\ value[5] = "-"
    /\ value[8] = "-"

DigitValue(c) ==
    CASE c = "0" -> 0 [] c = "1" -> 1 [] c = "2" -> 2 [] c = "3" -> 3
      [] c = "4" -> 4 [] c = "5" -> 5 [] c = "6" -> 6 [] c = "7" -> 7
      [] c = "8" -> 8 [] c = "9" -> 9

\* Number.parseInt(digits, 10) on a text of digits
RECURSIVE parseInt(_)
parseInt(digits) ==
    IF digits = <<>> THEN 0
    ELSE 10 * parseInt(SubSeq(digits, 1, Len(digits) - 1)) + DigitValue(Last(digits))

\* ---- search/SearchPanel.js

\* value.replace(/\s+/g, ' ').trim()
collapseWhitespace(value) ==
    trim(SelectAt(value,
                  [i \in 1..Len(value) |->
                      ~IsWhitespace(value[i]) \/ (i > 1 /\ ~IsWhitespace(value[i - 1]))],
                  1))

\* NAME_PATTERN removes what is no letter, mark, whitespace, apostrophe or hyphen
sanitizeName(value) ==
    collapseWhitespace(SelectAt(value,
                                [i \in 1..Len(value) |->
                                    \/ IsLetter(value[i])
                                    \/ IsWhitespace(value[i])
                                    \/ value[i] \in {"'", "-"}],
                                1))

sanitizeDate(value) ==
    IF trim(value) = <<>> THEN <<>>
    ELSE IF ~ISO_DATE_PATTERN(trim(value)) THEN <<>>
    ELSE trim(value)

NeedCriterion == "Renseignez au moins un critere de recherche."
InvalidDate == "La date de naissance doit etre une valeur valide du calendrier."

\* a validation that finds no issue
validateNothing(values) == <<>>

\* SearchPanel.#validate: the list of issues of the cleaned values
validate(values) ==
    (IF ~(Len(values.lastName) > 0 \/ Len(values.firstName) > 0 \/ Len(values.birthDate) > 0)
     THEN <<NeedCriterion>> ELSE <<>>)
    \o (IF values.birthDate # <<>> /\ ~ISO_DATE_PATTERN(values.birthDate)
        THEN <<InvalidDate>> ELSE <<>>)

\* the cleanedValues of SearchPanel.#handleSubmit
cleanValues(rawValues) ==
    [lastName |-> sanitizeName(rawValues.lastName),
     firstName |-> sanitizeName(rawValues.firstName),
     birthDate |-> sanitizeDate(rawValues.birthDate),
     birthDateUseYear |-> rawValues.birthDateUseYear]

\* ---- search/filter.js

\* a day, month or year that is null
Null == -1

normalize(value) == [i \in 1..Len(value) |-> toLowerCase(stripDiacritic(value[i]))]

normalizeNameParts(name) ==
    LET normalized == normalize(name)
        tokens == SplitWords(normalized)
    IN  IF normalized = <<>> THEN [full |-> <<>>, first |-> <<>>, last |-> <<>>]
        ELSE IF Len(tokens) = 0 THEN [full |-> normalized, first |-> <<>>, last |-> <<>>]
        ELSE [full |-> normalized,
              first |-> JoinWords(SubSeq(tokens, 1, Len(tokens) - 1)),
              last |-> Last(tokens)]

matchFragment(haystack, needle) ==
    IF needle = <<>> THEN TRUE ELSE includes(haystack, needle)

\* null (None) when the date is no ISO date, else the day and month asked for,
\* and the year when the year is asked for too
buildBirthQuery(dateValue, useYear) ==
    IF dateValue = <<>> THEN None
    ELSE IF ~ISO_DATE_PATTERN(dateValue) THEN None
    ELSE <<[day |-> parseInt(SubSeq(dateValue, 9, 10)),
            month |-> parseInt(SubSeq(dateValue, 6, 7)),
            year |-> IF useYear THEN parseInt(SubSeq(dateValue, 1, 4)) ELSE Null]>>

\* extractBirthInfo: the day, month and year read from the person's birth;
\* a person record of the model carries them already read
extractBirthInfo(person) == person.birth

matchBirthDate(person, birthQuery) ==
    LET info == extractBirthInfo(person)
    IN  IF birthQuery = None THEN TRUE
        ELSE IF info.day = Null \/ info.month = Null THEN FALSE
        ELSE IF info.day # birthQuery[1].day \/ info.month # birthQuery[1].month THEN FALSE
        ELSE IF birthQuery[1].year # Null
             THEN (IF info.year = Null THEN FALSE ELSE info.year = birthQuery[1].year)
        ELSE TRUE

\* person.name: the given names, then the surname
PersonName(person) == JoinWords(SelectSeq(<<person.firstName, person.lastName>>,
                                          LAMBDA part : part # <<>>))

filterIndividuals(inds, criteria) ==
    LET normalizedCriteria ==
            [lastName |-> normalize(criteria.lastName),
             firstName |-> normalize(criteria.firstName),
             birthQuery |-> buildBirthQuery(criteria.birthDate, criteria.birthDateUseYear)]
        Matches(person) ==
            LET parts == normalizeNameParts(PersonName(person))
                matchesLastName ==
                    \/ matchFragment(parts.full, normalizedCriteria.lastName)
                    \/ matchFragment(parts.last, normalizedCriteria.lastName)
                matchesFirstName ==
                    \/ matchFragment(parts.full, normalizedCriteria.firstName)
                    \/ matchFragment(parts.first, normalizedCriteria.firstName)
                matchesBirth == matchBirthDate(person, normalizedCriteria.birthQuery)
            IN  matchesLastName /\ matchesFirstName /\ matchesBirth
    IN  SelectSeq(inds, Matches)

\* ---- utils/person.js and the result modal

\* the date part of the person's birth, as text
extractBirthDate(person) == trim(person.birth.date)

formatPersonDisplayName(person) ==
    IF PersonName(person) = <<>> THEN <<>>
    ELSE IF extractBirthDate(person) = <<>> THEN PersonName(person)
    ELSE PersonName(person) \o <<" ", "(">> \o extractBirthDate(person) \o <<")">>

getSortableLabel(person) ==
    normalize(IF formatPersonDisplayName(person) # <<>> THEN formatPersonDisplayName(person)
              ELSE IF PersonName(person) # <<>> THEN PersonName(person)
              ELSE <<person.id>>)

\* the primary weight of a character in the collation: whitespace, then
\* punctuation, then digits, then letters; case and accents weigh nothing
CollationWeight(c) ==
    CASE c = " " -> 0
      [] c = "-" -> 1
      [] c = "'" -> 2
      [] c = "(" -> 3
      [] c = ")" -> 4
      [] c \in Digits -> 5 + DigitValue(c)
      [] toLowerCase(stripDiacritic(c)) = "a" -> 15
      [] toLowerCase(stripDiacritic(c)) = "b" -> 16

\* labelA.localeCompare(labelB, 'fr', { sensitivity: 'base' })
RECURSIVE localeCompare(_, _)
localeCompare(labelA, labelB) ==
    IF labelA = <<>> /\ labelB = <<>> THEN 0
    ELSE IF labelA = <<>> THEN -1
    ELSE IF labelB = <<>> THEN 1
    ELSE IF CollationWeight(Head(labelA)) < CollationWeight(Head(labelB)) THEN -1
    ELSE IF CollationWeight(Head(labelA)) > CollationWeight(Head(labelB)) THEN 1
    ELSE localeCompare(Tail(labelA), Tail(labelB))

\* the comparator of sortResults
compareResults(a, b) ==
    IF getSortableLabel(a) # <<>> /\ getSortableLabel(b) # <<>>
    THEN localeCompare(getSortableLabel(a), getSortableLabel(b))
    ELSE IF getSortableLabel(a) # <<>> THEN -1
    ELSE IF getSortableLabel(b) # <<>> THEN 1
    ELSE 0

\* Array.prototype.sort is stable: a result goes behind those it does not precede
RECURSIVE InsertResult(_, _)
InsertResult(sorted, person) ==
    IF sorted = <<>> THEN <<person>>
    ELSE IF compareResults(Head(sorted), person) <= 0
         THEN <<Head(sorted)>> \o InsertResult(Tail(sorted), person)
    ELSE <<person>> \o sorted

RECURSIVE sortResults(_)
sortResults(results) ==
    IF results = <<>> THEN <<>>
    ELSE InsertResult(sortResults(SubSeq(results, 1, Len(results) - 1)), Last(results))

\* ---- ui/search.js

\* normalizeText: accents stripped, what is no letter, mark, number,
\* whitespace, apostrophe or hyphen made a space, whitespace collapsed,
\* trimmed, lower-cased
normalizeText(value) ==
    LET stripped == [i \in 1..Len(value) |-> stripDiacritic(value[i])]
        spaced == [i \in 1..Len(stripped) |->
                      IF \/ IsLetter(stripped[i])
                         \/ stripped[i] \in Digits
                         \/ IsWhitespace(stripped[i])
                         \/ stripped[i] \in {"'", "-"}
                      THEN stripped[i] ELSE " "]
        collapsed == collapseWhitespace(spaced)
    IN  [i \in 1..Len(collapsed) |-> toLowerCase(collapsed[i])]

\* [..].filter(Boolean).join(' ')
JoinFilled(parts) == JoinWords(SelectSeq(parts, LAMBDA part : part # <<>>))

\* the label and the dates of the record that refreshSearchIndex hands to update()
buildDisplayName(record) ==
    IF JoinFilled(<<record.firstName, record.lastName>>) # <<>>
    THEN JoinFilled(<<record.firstName, record.lastName>>)
    ELSE <<record.id>>

buildEntryTokens(record) ==
    LET nameParts == JoinFilled(<<record.firstName, record.lastName>>)
        birthInfo == JoinFilled(<<record.birth.date>>)
        combined == JoinFilled(<<buildDisplayName(record), record.birth.date, birthInfo>>)
    IN  [lastName |-> normalizeText(record.lastName),
         firstName |-> normalizeText(record.firstName),
         birth |-> normalizeText(birthInfo),
         combined |-> normalizeText(IF combined # <<>> THEN combined ELSE nameParts)]

getNormalizedQuery(inputs) ==
    [lastName |-> normalizeText(trim(inputs.lastName)),
     firstName |-> normalizeText(trim(inputs.firstName)),
     birth |-> normalizeText(trim(inputs.birthDate))]

hasQuery(query) ==
    Len(query.lastName) > 0 \/ Len(query.firstName) > 0 \/ Len(query.birth) > 0

matchesQuery(record, query) ==
    LET tokens == buildEntryTokens(record)
    IN  IF query.lastName # <<>> /\ ~includes(tokens.lastName, query.lastName) THEN FALSE
        ELSE IF query.firstName # <<>> /\ ~includes(tokens.firstName, query.firstName) THEN FALSE
        ELSE IF query.birth # <<>>
             THEN includes(tokens.birth, query.birth) \/ includes(tokens.combined, query.birth)
        ELSE TRUE

\* ---- the callbacks that wire the panel, the filter, the modal and the tree

\* SearchPanel -> filterIndividuals -> SearchModal, or createSearchPanel of ui/search.js
Panels == {"SearchPanel", "createSearchPanel"}

NeedField == "Veuillez renseigner au moins un champ de recherche."
NoMatch == "Aucun individu"
SomeMatches == "resultats trouves"
SeveralMatches == "Plusieurs membres correspondent"

ClosedModal == [open |-> FALSE, message |-> "", list |-> <<>>]
EmptyInputs == [lastName |-> <<>>, firstName |-> <<>>, birthDate |-> <<>>, birthDateUseYear |-> FALSE]

Ids(persons) == [i \in 1..Len(persons) |-> persons[i].id]

\* SearchModal.open(results) with #populate
modalOpen(results) ==
    [open |-> TRUE,
     message |-> IF Len(sortResults(results)) = 0 THEN NoMatch ELSE SomeMatches,
     list |-> Ids(sortResults(results))]

\* SearchModal.close()
modalClose(mod) == [mod EXCEPT !.open = FALSE]

\* focusOnIndividual, and highlightIndividual when the individual is no node
\* of the layout (focusOnIndividual then returns false)
selectIndividual(ids, id) ==
    <<[op |-> "focusOnIndividual", id |-> id]>>
    \o (IF id \in ids THEN <<>> ELSE <<[op |-> "highlightIndividual", id |-> id]>>)

\* the onSearch callback that init() gives the SearchPanel
onSearch(inds, ids, mod, calls, criteria) ==
    LET hasCriteria ==
            Len(criteria.lastName) > 0 \/ Len(criteria.firstName) > 0 \/ Len(criteria.birthDate) > 0
        results == filterIndividuals(inds, criteria)
    IN  IF ~hasCriteria
        THEN [modal |-> modalClose(mod), treeCalls |-> calls, filtered |-> FALSE, results |-> <<>>]
        ELSE IF Len(results) = 1
        THEN [modal |-> modalClose(mod),
              treeCalls |-> calls \o selectIndividual(ids, results[1].id),
              filtered |-> TRUE, results |-> Ids(results)]
        ELSE [modal |-> modalOpen(results), treeCalls |-> calls,
              filtered |-> TRUE, results |-> Ids(results)]

\* ---- the individuals and the inputs explored

IsoDate1900 == <<"1", "9", "0", "0", "-", "0", "1", "-", "0", "2">>
DayMonthText == <<"2", "-", "1">>

PersonA == [id |-> "1", firstName |-> <<"A">>, lastName |-> <<"b">>,
            birth |-> [date |-> DayMonthText, day |-> 2, month |-> 1, year |-> 1900]]
PersonB == [id |-> "2", firstName |-> <<"b">>, lastName |-> <<ACirc>>,
            birth |-> [date |-> DayMonthText, day |-> 2, month |-> 1, year |-> 1901]]
PersonC == [id |-> "3", firstName |-> <<"a", "b">>, lastName |-> <<"A", "b">>,
            birth |-> [date |-> <<>>, day |-> Null, month |-> Null, year |-> Null]]

SamplePeople == {<<PersonA>>, <<PersonB, PersonA>>, <<PersonC, PersonB, PersonA>>}

RawLastNames == {<<>>, <<"a">>, <<"A">>, <<ACirc>>, <<"b">>, <<" ", "1", " ">>, <<"b", "1", " ">>}
RawFirstNames == {<<>>, <<"a">>, <<"b", " ", " ">>}
RawDates == {<<>>, IsoDate1900, DayMonthText}
RawValues == [lastName : RawLastNames, firstName : RawFirstNames,
              birthDate : RawDates, birthDateUseYear : BOOLEAN]

InitSearch ==
    /\ individuals = <<>>
    /\ relationships = <<>>
    /\ pc = "off"
    /\ graph = NoGraph
    /\ stack = <<>>
    /\ hnodes = <<>>
    /\ layout = NoLayout
    /\ NoRenderer
    /\ panel \in Panels
    /\ people \in SamplePeople
    /\ treeIds \in {Range(Ids(people)), Range(Ids(people)) \ {"1"}}
    /\ form = EmptyInputs
    /\ errors = <<>>
    /\ modal = ClosedModal
    /\ treeCalls = <<>>
    /\ lastSearch = None
    /\ nsearches = 0
    /\ NoPage

\* SearchPanel.#handleSubmit, with the onSearch callback it calls
Submit(rawValues) ==
    /\ panel = "SearchPanel"
    /\ nsearches < MaxSearches
    /\ nsearches' = nsearches + 1
    /\ form' = cleanValues(rawValues)
    /\ errors' = validate(cleanValues(rawValues))
    /\ IF Len(validate(cleanValues(rawValues))) > 0
       THEN /\ lastSearch' = <<[raw |-> rawValues, filtered |-> FALSE, results |-> <<>>]>>
            /\ UNCHANGED <<modal, treeCalls>>
       ELSE LET done == onSearch(people, treeIds, modal, treeCalls, cleanValues(rawValues))
            IN  /\ lastSearch' = <<[raw |-> rawValues, filtered |-> done.filtered,
                                    results |-> done.results]>>
                /\ modal' = done.modal
                /\ treeCalls' = done.treeCalls
    /\ UNCHANGED <<panel, people, treeIds>>
    /\ UNCHANGED layoutVars
    /\ UNCHANGED rendererVars
    /\ UNCHANGED pageVars

\* SearchPanel.#handleReset, with the onSearch callback it calls
Reset ==
    /\ panel = "SearchPanel"
    /\ form # EmptyInputs \/ errors # <<>> \/ modal.open
    /\ form' = EmptyInputs
    /\ errors' = <<>>
    /\ LET done == onSearch(people, treeIds, modal, treeCalls, EmptyInputs)
       IN  /\ modal' = done.modal
           /\ treeCalls' = done.treeCalls
    /\ UNCHANGED <<panel, people, treeIds, lastSearch, nsearches>>
    /\ UNCHANGED layoutVars
    /\ UNCHANGED rendererVars
    /\ UNCHANGED pageVars

\* a click on the i-th result of the SearchModal: onSelect, then close()
SelectResult(i) ==
    /\ panel = "SearchPanel"
    /\ modal.open
    /\ i \in 1..Len(modal.list)
    /\ treeCalls' = treeCalls \o selectIndividual(treeIds, modal.list[i])
    /\ modal' = modalClose(modal)
    /\ UNCHANGED <<panel, people, treeIds, form, errors, lastSearch, nsearches>>
    /\ UNCHANGED layoutVars
    /\ UNCHANGED rendererVars
    /\ UNCHANGED pageVars

\* the close button, the backdrop or the Escape key
CloseModal ==
    /\ modal.open
    /\ modal' = modalClose(modal)
    /\ UNCHANGED <<panel, people, treeIds, form, errors, treeCalls, lastSearch, nsearches>>
    /\ UNCHANGED layoutVars
    /\ UNCHANGED rendererVars
    /\ UNCHANGED pageVars

\* openResultsModal of ui/search.js
openResultsModal(matches) ==
    [open |-> TRUE,
     message |-> IF Len(matches) = 0 THEN NoMatch ELSE SeveralMatches,
     list |-> Ids(matches)]

\* executeSearch of ui/search.js, with the onSelect callback (focusOnPerson)
ExecuteSearch(inputs) ==
    /\ panel = "createSearchPanel"
    /\ nsearches < MaxSearches
    /\ nsearches' = nsearches + 1
    /\ LET normalizedQuery == getNormalizedQuery(inputs)
           matches == SelectSeq(people, LAMBDA record : matchesQuery(record, normalizedQuery))
       IN  IF ~hasQuery(normalizedQuery)
           THEN /\ modal' = [open |-> TRUE, message |-> NeedField, list |-> <<>>]
                /\ form' = inputs
                /\ lastSearch' = <<[raw |-> inputs, filtered |-> FALSE, results |-> <<>>]>>
                /\ UNCHANGED treeCalls
           ELSE IF Len(matches) = 1
           THEN /\ form' = EmptyInputs
                /\ treeCalls' = treeCalls \o <<[op |-> "focusOnPerson", id |-> matches[1].id]>>
                /\ lastSearch' = <<[raw |-> inputs, filtered |-> TRUE, results |-> Ids(matches)]>>
                /\ UNCHANGED modal
           ELSE /\ form' = inputs
                /\ modal' = openResultsModal(matches)
                /\ lastSearch' = <<[raw |-> inputs, filtered |-> TRUE, results |-> Ids(matches)]>>
                /\ UNCHANGED treeCalls
    /\ UNCHANGED <<panel, people, treeIds, errors>>
    /\ UNCHANGED layoutVars
    /\ UNCHANGED rendererVars
    /\ UNCHANGED pageVars

\* a click on the i-th option of the modal of ui/search.js
SelectOption(i) ==
    /\ panel = "createSearchPanel"
    /\ modal.open
    /\ i \in 1..Len(modal.list)
    /\ modal' = modalClose(modal)
    /\ form' = EmptyInputs
    /\ treeCalls' = treeCalls \o <<[op |-> "focusOnPerson", id |-> modal.list[i]]>>
    /\ UNCHANGED <<panel, people, treeIds, errors, lastSearch, nsearches>>
    /\ UNCHANGED layoutVars
    /\ UNCHANGED rendererVars
    /\ UNCHANGED pageVars

NextSearch ==
    \/ \E rawValues \in RawValues : Submit(rawValues)
    \/ Reset
    \/ \E i \in 1..3 : SelectResult(i)
    \/ CloseModal
    \/ \E inputs \in RawValues : ExecuteSearch(inputs)
    \/ \E i \in 1..3 : SelectOption(i)

SpecSearch == InitSearch /\ [][NextSearch]_vars

\* ---------------------------------------------------------------------------
\* Claims about the search
\* ---------------------------------------------------------------------------

\* the step is a submission of the search form
SearchStep == nsearches' = nsearches + 1

\* the last name, first name and birth info submitted are all empty once the
\* panel has sanitised them
NoCriterionLeft(raw) ==
    IF panel = "SearchPanel"
    THEN /\ cleanValues(raw).lastName = <<>>
         /\ cleanValues(raw).firstName = <<>>
         /\ cleanValues(raw).birthDate = <<>>
    ELSE /\ getNormalizedQuery(raw).lastName = <<>>
         /\ getNormalizedQuery(raw).firstName = <<>>
         /\ getNormalizedQuery(raw).birth = <<>>

\* the panel shows the message that asks for at least one criterion
NeedCriterionShown ==
    IF panel = "SearchPanel"
    THEN NeedCriterion \in Range(errors)
    ELSE modal.open /\ modal.message = NeedField /\ modal.list = <<>>

\* C18: a submission whose last name, first name and birth info are all empty
\* after sanitisation is a validation failure: the message asking for a
\* criterion is shown, the individuals are not filtered, and no call selects
\* or focuses an individual in the tree.
C18_EmptySearchIsValidationFailure ==
    [][(SearchStep /\ NoCriterionLeft(lastSearch'[1].raw))
        => /\ NeedCriterionShown'
           /\ ~lastSearch'[1].filtered
           /\ treeCalls' = treeCalls]_vars

\* a submission of a last name made of a digit and spaces, which the
\* SearchPanel sanitises to nothing, has been refused
C18_Witness ==
    /\ panel = "SearchPanel"
    /\ nsearches = 1
    /\ lastSearch[1].raw.lastName = <<" ", "1", " ">>
    /\ lastSearch[1].raw.birthDate = DayMonthText
    /\ NoCriterionLeft(lastSearch[1].raw)
    /\ NeedCriterionShown
    /\ form = EmptyInputs

\* the individuals have been filtered by the last submission
Filtered == lastSearch # None /\ lastSearch[1].filtered

\* the text folds to a fragment of the field once accents and case are dropped;
\* an empty text constrains nothing
FragmentOfField(text, field) == text = <<>> \/ includes(normalize(field), normalize(text))

\* the person satisfies every criterion of the submission, each against its
\* own field: the last name against the surname, the first name against the
\* given names, the birth info against the birth
SatisfiesEveryCriterion(person, raw) ==
    IF panel = "SearchPanel"
    THEN /\ FragmentOfField(cleanValues(raw).lastName, person.lastName)
         /\ FragmentOfField(cleanValues(raw).firstName, person.firstName)
         /\ matchBirthDate(person, buildBirthQuery(cleanValues(raw).birthDate,
                                                   cleanValues(raw).birthDateUseYear))
    ELSE /\ FragmentOfField(getNormalizedQuery(raw).lastName, person.lastName)
         /\ FragmentOfField(getNormalizedQuery(raw).firstName, person.firstName)
         /\ FragmentOfField(getNormalizedQuery(raw).birth, person.birth.date)

\* C19: a search returns exactly the individuals that satisfy every provided
\* criterion, each criterion being an accent- and case-insensitive fragment
\* test against its own field (last name against the surname, first name
\* against the given names), an empty criterion constraining nothing.
C19_ResultsSatisfyEachCriterionOnItsField ==
    Filtered =>
        lastSearch[1].results =
            Ids(SelectSeq(people, LAMBDA person : SatisfiesEveryCriterion(person, lastSearch[1].raw)))

PersonById(id) == CHOOSE person \in Range(people) : person.id = id

\* the name the result list shows for the individual
DisplayName(id) ==
    IF panel = "SearchPanel"
    THEN formatPersonDisplayName(PersonById(id))
    ELSE buildDisplayName(PersonById(id))

SortedByDisplayName(list) ==
    \A i \in 1..Len(list), j \in 1..Len(list) :
        i < j => localeCompare(normalize(DisplayName(list[i])),
                               normalize(DisplayName(list[j]))) <= 0

\* the calls that select the individual in the tree: it is focused, or
\* highlighted when focusing fails
SelectionOf(id) ==
    IF panel = "SearchPanel"
    THEN <<[op |-> "focusOnIndividual", id |-> id]>>
         \o (IF id \in treeIds THEN <<>> ELSE <<[op |-> "highlightIndividual", id |-> id]>>)
    ELSE <<[op |-> "focusOnPerson", id |-> id]>>

\* C20: a search with exactly one match selects that individual at once
\* (focused, or highlighted when focusing fails) and shows no result list; a
\* search with several matches shows a list of every match, sorted by display
\* name, and selects nobody.
C20_OneMatchSelectedSeveralListedSorted ==
    [][(SearchStep /\ lastSearch'[1].filtered)
        => /\ Len(lastSearch'[1].results) = 1
                => /\ treeCalls' = treeCalls \o SelectionOf(lastSearch'[1].results[1])
                   /\ ~modal'.open
           /\ Len(lastSearch'[1].results) > 1
                => /\ modal'.open
                   /\ Len(modal'.list) = Len(lastSearch'[1].results)
                   /\ Range(modal'.list) = Range(lastSearch'[1].results)
                   /\ SortedByDisplayName(modal'.list)
                   /\ treeCalls' = treeCalls]_vars

-----------------------------------------------------------------------------
(* SearchModal: open(), close() and the callbacks they defer *)

\* the layout, the renderer and the search are not part of the modal's run
OutsideModal == <<layoutVars, rendererVars, searchVars, appVars, recordVars, chartVars>>

\* SearchModal.isOpen()
isOpen == openClass

InitModal ==
    /\ NoLayoutRun
    /\ NoRenderer
    /\ NoSearch
    /\ NoApp
    /\ NoRecords
    /\ NoChart
    /\ hidden = TRUE
    /\ openClass = FALSE
    /\ frames = 0
    /\ timers = 0
    /\ lastModalCall = "none"
    /\ nmodalcalls = 0

\* SearchModal.open(results): the hidden attribute is removed at once, the open
\* class is added by an animation-frame callback
ModalOpen ==
    /\ nmodalcalls < MaxModalCalls
    /\ hidden' = FALSE
    /\ frames' = frames + 1
    /\ lastModalCall' = "open"
    /\ nmodalcalls' = nmodalcalls + 1
    /\ UNCHANGED <<openClass, timers>>
    /\ UNCHANGED OutsideModal

\* SearchModal.close(): nothing unless isOpen(); else the open class is removed at
\* once and the hidden attribute is set by a timeout of TRANSITION_DURATION
ModalClose ==
    /\ nmodalcalls < MaxModalCalls
    /\ IF ~isOpen
       THEN UNCHANGED <<openClass, timers>>
       ELSE /\ openClass' = FALSE
            /\ timers' = timers + 1
    /\ lastModalCall' = "close"
    /\ nmodalcalls' = nmodalcalls + 1
    /\ UNCHANGED <<hidden, frames>>
    /\ UNCHANGED OutsideModal

\* the animation-frame callback of open() runs
ModalFrame ==
    /\ frames > 0
    /\ openClass' = TRUE
    /\ frames' = frames - 1
    /\ UNCHANGED <<hidden, timers, lastModalCall, nmodalcalls>>
    /\ UNCHANGED OutsideModal

\* the timeout of close() fires
ModalTimeout ==
    /\ timers > 0
    /\ hidden' = TRUE
    /\ timers' = timers - 1
    /\ UNCHANGED <<openClass, frames, lastModalCall, nmodalcalls>>
    /\ UNCHANGED OutsideModal

NextModal ==
    \/ ModalOpen
    \/ ModalClose
    \/ ModalFrame
    \/ ModalTimeout

SpecModal == InitModal /\ [][NextModal]_vars

\* no deferred callback of the modal is waiting
ModalQuiet == frames = 0 /\ timers = 0

\* the modal is shown: the open class is set and the root is not hidden
ModalVisible == openClass /\ ~hidden

\* C27: once every deferred callback has run, the modal is visible exactly when the
\* latest call was open(), and it does not carry the open class while hidden
C27_VisibleIffLastCallWasOpen ==
    ModalQuiet => /\ ModalVisible <=> lastModalCall = "open"
                  /\ ~(openClass /\ hidden)

-----------------------------------------------------------------------------
(* The page: init(), renderTree and the layout media query *)

ROOT_PERSON_ID == "S_3072"

\* the responses fetch resolves with: the status is a success or not, and the body
\* is the data's JSON or text JSON.parse rejects
Responses == [ok : BOOLEAN, body : {"data", "unparsable"}]

\* fetchData with no look at response.ok
fetchDataIgnoringStatus(resp) ==
    IF resp.body = "unparsable"
    THEN [threw |-> TRUE]
    ELSE [threw |-> FALSE]

\* fetchData(): throws unless response.ok, and response.json() rejects a body that
\* is not JSON
fetchData(resp) ==
    IF ~resp.ok
    THEN [threw |-> TRUE]
    ELSE IF resp.body = "unparsable"
         THEN [threw |-> TRUE]
    ELSE [threw |-> FALSE]

\* buildTreeLayout(individuals, relationships, {mode}) on the page's data, a parent a
\* with its child b: the same nodes in both modes, placed differently
LayoutInMode(mode) ==
    IF mode = "hierarchical"
    THEN [nodeById |-> ("a" :> [x |-> 260, y |-> 200]) @@ ("b" :> [x |-> 520, y |-> 200]),
          bounds |-> [minX |-> 228, maxX |-> 552, minY |-> 168, maxY |-> 232],
          dimensions |-> [width |-> 780, height |-> 401]]
    ELSE [nodeById |-> ("a" :> [x |-> 500, y |-> 500]) @@ ("b" :> [x |-> 500, y |-> 720]),
          bounds |-> [minX |-> 468, maxX |-> 532, minY |-> 468, maxY |-> 752],
          dimensions |-> [width |-> 1000, height |-> 1000]]

\* the ids the search and the API hand to the page
PageIds == {"a", "b", UnknownId}

\* layoutMediaQuery.matches ? 'fan' : 'hierarchical'
DesiredMode(matches) == IF matches THEN "fan" ELSE "hierarchical"

\* a ?? b, a || b on ids (null is NoId)
Coalesce(a, b) == IF a # NoId THEN a ELSE b

\* treeApi.focusOnIndividual(id) then, when it returns false, highlightIndividual(id):
\* the highlighted id of the renderer afterwards
FocusOrHighlight(mode, hl, id) ==
    LET focus == focusOnIndividual(LayoutInMode(mode), <<2187, 1728>>, hl, zoomIdentity, id)
    IN IF focus.result THEN focus.highlightedId ELSE id

\* renderTree that takes the id to restore from preferredFocusId alone
renderTreeFromPreferred(api, preferred, default, mode, serial) ==
    LET previousHighlight == Coalesce(preferred, default)
        targetId == Coalesce(previousHighlight, Coalesce(default, ROOT_PERSON_ID))
        highlighted == FocusOrHighlight(mode, NoId, targetId)
    IN [treeApi |-> <<[serial |-> serial, mode |-> mode, highlightedId |-> highlighted]>>,
        preferredFocusId |-> Coalesce(highlighted, Coalesce(targetId, preferred))]

\* renderTree(mode): the renderer it leaves in treeApi and the preferredFocusId
renderTree(api, preferred, default, mode, serial) ==
    LET previousHighlight ==
            Coalesce(IF api = None THEN NoId ELSE api[1].highlightedId,
                     Coalesce(preferred, default))
        targetId == Coalesce(previousHighlight, Coalesce(default, ROOT_PERSON_ID))
        highlighted == FocusOrHighlight(mode, NoId, targetId)
    IN [treeApi |-> <<[serial |-> serial, mode |-> mode, highlightedId |-> highlighted]>>,
        preferredFocusId |-> Coalesce(highlighted, Coalesce(targetId, preferred))]

\* the layout, the renderer, the search and the modal are not part of the page's run
OutsidePage == <<layoutVars, rendererVars, searchVars, modalVars, recordVars, chartVars>>

InitPage ==
    /\ NoLayoutRun
    /\ NoRenderer
    /\ NoSearch
    /\ NoModal
    /\ NoRecords
    /\ NoChart
    /\ phase = "loading"
    /\ response = None
    /\ appContent = "shell"
    /\ mediaMatches \in BOOLEAN
    /\ listening = FALSE
    /\ currentLayoutMode = "fan"
    /\ treeApi = None
    /\ defaultFocusId \in {"a", ROOT_PERSON_ID}
    /\ preferredFocusId = defaultFocusId
    /\ layoutBuilds = 0
    /\ rendererBuilds = 0
    /\ destroys = 0
    /\ nfetches = 1
    /\ npageops = 0

\* the fetch of init() settles with a response: the rest of init() runs, or its catch
FetchSettles(resp) ==
    /\ phase = "loading"
    /\ response' = <<resp>>
    /\ IF fetchData(resp).threw
       THEN /\ phase' = "error"
            /\ appContent' = "error"
            /\ UNCHANGED <<listening, currentLayoutMode, treeApi, preferredFocusId,
                           layoutBuilds, rendererBuilds>>
       ELSE LET mode == DesiredMode(mediaMatches)
                rendered == renderTree(treeApi, preferredFocusId, defaultFocusId, mode,
                                       rendererBuilds + 1)
            IN /\ phase' = "ready"
               /\ appContent' = "layout"
               /\ listening' = TRUE
               /\ currentLayoutMode' = mode
               /\ treeApi' = rendered.treeApi
               /\ preferredFocusId' = rendered.preferredFocusId
               /\ layoutBuilds' = layoutBuilds + 1
               /\ rendererBuilds' = rendererBuilds + 1
    /\ UNCHANGED <<mediaMatches, defaultFocusId, destroys, nfetches, npageops>>
    /\ UNCHANGED OutsidePage

\* the media query changes and its change event is delivered: handleLayoutChange,
\* where it is registered
MediaChange(matches) ==
    /\ npageops < MaxPageOps
    /\ mediaMatches' = matches
    /\ IF ~listening \/ DesiredMode(matches) = currentLayoutMode
       THEN UNCHANGED <<currentLayoutMode, treeApi, preferredFocusId, layoutBuilds,
                        rendererBuilds, destroys>>
       ELSE LET rendered == renderTree(treeApi, preferredFocusId, defaultFocusId,
                                       DesiredMode(matches), rendererBuilds + 1)
            IN /\ currentLayoutMode' = DesiredMode(matches)
               /\ treeApi' = rendered.treeApi
               /\ preferredFocusId' = rendered.preferredFocusId
               /\ layoutBuilds' = layoutBuilds + 1
               /\ rendererBuilds' = rendererBuilds + 1
               /\ destroys' = destroys + (IF treeApi = None THEN 0 ELSE 1)
    /\ npageops' = npageops + 1
    /\ UNCHANGED <<phase, response, appContent, listening, defaultFocusId, nfetches>>
    /\ UNCHANGED OutsidePage

\* the search hands a person to the page (onSelect of the modal, or the single
\* result of onSearch)
SelectPerson(id) ==
    /\ npageops < MaxPageOps
    /\ phase = "ready"
    /\ LET highlighted == FocusOrHighlight(treeApi[1].mode, treeApi[1].highlightedId, id)
       IN /\ treeApi' = <<[treeApi[1] EXCEPT !.highlightedId = highlighted]>>
          /\ preferredFocusId' = Coalesce(highlighted, Coalesce(id, preferredFocusId))
    /\ npageops' = npageops + 1
    /\ UNCHANGED <<phase, response, appContent, mediaMatches, listening, currentLayoutMode,
                   defaultFocusId, layoutBuilds, rendererBuilds, destroys, nfetches>>
    /\ UNCHANGED OutsidePage

\* a node of the tree is activated (handleNodeActivate of the renderer): it becomes
\* the highlighted node, and the page only opens the person's modal
NodeActivate(id) ==
    /\ npageops < MaxPageOps
    /\ phase = "ready"
    /\ id \in DOMAIN LayoutInMode(treeApi[1].mode).nodeById
    /\ treeApi' = <<[treeApi[1] EXCEPT !.highlightedId = id]>>
    /\ npageops' = npageops + 1
    /\ UNCHANGED <<phase, response, appContent, mediaMatches, listening, currentLayoutMode,
                   preferredFocusId, defaultFocusId, layoutBuilds, rendererBuilds, destroys,
                   nfetches>>
    /\ UNCHANGED OutsidePage

NextPage ==
    \/ \E resp \in Responses : FetchSettles(resp)
    \/ \E matches \in BOOLEAN : MediaChange(matches)
    \/ \E id \in PageIds : SelectPerson(id)
    \/ \E id \in PageIds : NodeActivate(id)

SpecPage == InitPage /\ [][NextPage]_vars

\* the response is one fetchData cannot turn into data
BadResponse == response # None /\ (~response[1].ok \/ response[1].body = "unparsable")

\* C21: when the fetch returns a non-success status or a body that cannot be parsed,
\* the page is and stays in the error state, shown in place of the visualization: no
\* layout was built, no renderer created, and fetch was called once
C21_FailedLoadEndsInErrorState ==
    BadResponse => /\ phase = "error"
                   /\ appContent = "error"
                   /\ layoutBuilds = 0
                   /\ rendererBuilds = 0
                   /\ treeApi = None
                   /\ ~listening
                   /\ nfetches = 1

\* C21 witness: the fetch returned a non-success status with a body that parses, and
\* a media-query change was delivered afterwards
C21_Witness ==
    /\ response # None
    /\ ~response[1].ok
    /\ response[1].body = "data"
    /\ phase = "error"
    /\ npageops > 0

\* C28: while the page shows the tree, a step that switches the layout mode builds a
\* layout and a renderer anew in the new mode, destroys the old renderer, and the
\* individual highlighted before the step, when a node of the new layout, is the one
\* highlighted after it; a step that leaves the mode as it is rebuilds nothing
C28_ModeSwitchRebuildsAndKeepsHighlight ==
    [][phase = "ready" =>
          IF currentLayoutMode' # currentLayoutMode
          THEN /\ layoutBuilds' = layoutBuilds + 1
               /\ rendererBuilds' = rendererBuilds + 1
               /\ destroys' = destroys + 1
               /\ treeApi'[1].serial # treeApi[1].serial
               /\ treeApi'[1].mode = currentLayoutMode'
               /\ treeApi[1].highlightedId \in DOMAIN LayoutInMode(currentLayoutMode').nodeById
                     => treeApi'[1].highlightedId = treeApi[1].highlightedId
          ELSE /\ layoutBuilds' = layoutBuilds
               /\ rendererBuilds' = rendererBuilds
               /\ destroys' = destroys
               /\ treeApi'[1].serial = treeApi[1].serial]_vars

\* C28 witness: b was activated on a page whose default focus is a, and the mode has
\* switched since: the second renderer highlights b
C28_Witness ==
    /\ phase = "ready"
    /\ rendererBuilds = 2
    /\ defaultFocusId = "a"
    /\ preferredFocusId = "b"
    /\ treeApi[1].highlightedId = "b"
    /\ treeApi[1].mode = currentLayoutMode

-----------------------------------------------------------------------------
(* The chart page's records and its add-person form *)

\* the identifier `NEW_${Date.now()}`
NewId(t) == <<"NEW_", t>>

\* the records loadData leaves: a parent and its child, with the ids of the data
LoadedRecords ==
    << [id |-> <<"S_", 1>>, parents |-> <<>>, children |-> << <<"S_", 2>> >>],
       [id |-> <<"S_", 2>>, parents |-> << <<"S_", 1>> >>, children |-> <<>>] >>

\* the parentId of a form whose parent select is left empty
NoParent == <<>>

\* the values of the form's parent select: none, or a record of the list
ParentChoices == {NoParent} \cup {records[i].id : i \in DOMAIN records}

\* every id a record of the list can carry, and no parent
ParentIds ==
    {NoParent} \cup {LoadedRecords[i].id : i \in DOMAIN LoadedRecords}
               \cup {NewId(t) : t \in 0..MaxNow}

\* createRecordFromForm(values, parentId), the names and dates left out
createRecordFromForm(parentId) ==
    [id |-> NewId(now),
     parents |-> IF parentId # NoParent THEN <<parentId>> ELSE <<>>,
     children |-> <<>>]

\* the other runs are not part of the form's run
OutsideRecords == <<layoutVars, rendererVars, searchVars, modalVars, appVars, chartVars>>

InitRecords ==
    /\ NoLayoutRun
    /\ NoRenderer
    /\ NoSearch
    /\ NoModal
    /\ NoApp
    /\ NoChart
    /\ records = LoadedRecords
    /\ recordById = [id \in {LoadedRecords[i].id : i \in DOMAIN LoadedRecords} |->
                        CHOOSE i \in DOMAIN LoadedRecords : LoadedRecords[i].id = id]
    /\ now = 0
    /\ nsubmits = 0

\* the clock moves on by a millisecond
Tick ==
    /\ now < MaxNow
    /\ now' = now + 1
    /\ UNCHANGED <<records, recordById, nsubmits>>
    /\ UNCHANGED OutsideRecords

\* the submit handler of the add-person form: the record is pushed, stored in the Map
\* under its id, and linked with its parent
SubmitPerson(parentId) ==
    /\ nsubmits < MaxSubmits
    /\ parentId \in ParentChoices
    /\ LET newRecord == createRecordFromForm(parentId)
           pushed == Append(records, newRecord)
           byId == (newRecord.id :> Len(pushed)) @@ recordById
           parentAt == IF parentId # NoParent /\ parentId \in DOMAIN byId THEN byId[parentId] ELSE 0
       IN /\ records' =
                IF parentAt = 0 \/ newRecord.id \in Range(pushed[parentAt].children)
                THEN pushed
                ELSE [pushed EXCEPT ![parentAt].children = Append(@, newRecord.id)]
          /\ recordById' = byId
    /\ nsubmits' = nsubmits + 1
    /\ UNCHANGED now
    /\ UNCHANGED OutsideRecords

NextRecords ==
    \/ Tick
    \/ \E parentId \in ParentIds : SubmitPerson(parentId)

SpecRecords == InitRecords /\ [][NextRecords]_vars

\* C29: the ids of the records are pairwise distinct, and recordById holds one entry
\* per record of the list, the one of the record's id
C29_IdsDistinctAndMapMatchesList ==
    /\ \A i, j \in DOMAIN records : i # j => records[i].id # records[j].id
    /\ DOMAIN recordById = {records[i].id : i \in DOMAIN records}
    /\ \A i \in DOMAIN records : recordById[records[i].id] = i

-----------------------------------------------------------------------------
(* The chart-based renderer: runWhenReady and flushPendingActions *)

\* what the API calls hand to runWhenReady: focusOnIndividual its highlight and then
\* its move of the view, the others one action each; nothing for an unknown person
ChartCalls == {"focusOnIndividual", "highlightIndividual", "zoom", "resetView", "unknown"}

ActionsOfCall(call) ==
    CASE call = "focusOnIndividual" -> <<"highlight", "focus">>
      [] call = "highlightIndividual" -> <<"highlight">>
      [] call = "zoom" -> <<"zoom">>
      [] call = "resetView" -> <<"restore">>
      [] OTHER -> <<>>

\* getModel() of the stored chart returns a model
ChartReady == chartInstance /\ modelReady

\* the actions of a queue up to the first that throws, this one included
UpToFirstThrow(tasks) ==
    IF \E i \in DOMAIN tasks : tasks[i].throws
    THEN SubSeq(tasks, 1, CHOOSE i \in DOMAIN tasks :
                             /\ tasks[i].throws
                             /\ \A j \in 1..(i - 1) : ~tasks[j].throws)
    ELSE tasks

\* flushPendingActions with no try around the action
flushPendingActionsUnguarded(instance, model, pending) ==
    IF ~instance \/ ~model
    THEN [pendingActions |-> pending, ran |-> <<>>]
    ELSE [pendingActions |-> <<>>, ran |-> UpToFirstThrow(pending)]

\* flushPendingActions(): nothing without a chart with a model; else the queue is
\* emptied and its actions run in order, each inside a try
flushPendingActions(instance, model, pending) ==
    IF ~instance \/ ~model
    THEN [pendingActions |-> pending, ran |-> <<>>]
    ELSE [pendingActions |-> <<>>, ran |-> pending]

\* the other runs are not part of the chart's run
OutsideChart == <<layoutVars, rendererVars, searchVars, modalVars, appVars, recordVars>>

InitChart ==
    /\ NoLayoutRun
    /\ NoRenderer
    /\ NoSearch
    /\ NoModal
    /\ NoApp
    /\ NoRecords
    /\ chartInstance = FALSE
    /\ modelReady = FALSE
    /\ pendingActions = <<>>
    /\ executed = <<>>
    /\ requested = <<>>
    /\ nrequests = 0

\* an API call: runWhenReady runs each of its actions at once on a chart with a model,
\* and queues it otherwise
ChartCall(call, throws) ==
    /\ nrequests < MaxRequests
    /\ LET tasks == [k \in DOMAIN ActionsOfCall(call) |->
                        [call |-> nrequests + 1, action |-> ActionsOfCall(call)[k],
                         throws |-> throws, queued |-> ~ChartReady]]
       IN /\ requested' = requested \o (IF ChartReady THEN UpToFirstThrow(tasks) ELSE tasks)
          /\ IF ChartReady
             THEN /\ executed' = executed \o UpToFirstThrow(tasks)
                  /\ UNCHANGED pendingActions
             ELSE /\ pendingActions' = pendingActions \o tasks
                  /\ UNCHANGED executed
    /\ nrequests' = nrequests + 1
    /\ UNCHANGED <<chartInstance, modelReady>>
    /\ UNCHANGED OutsideChart

\* handleChartReady(chart): the chart is stored, 'finished' is listened to, and the
\* queue is flushed
HandleChartReady ==
    /\ ~chartInstance
    /\ chartInstance' = TRUE
    /\ LET flushed == flushPendingActions(TRUE, modelReady, pendingActions)
       IN /\ pendingActions' = flushed.pendingActions
          /\ executed' = executed \o flushed.ran
    /\ UNCHANGED <<modelReady, requested, nrequests>>
    /\ UNCHANGED OutsideChart

\* the chart is given its option: getModel() returns a model from now on
ModelAvailable ==
    /\ ~modelReady
    /\ modelReady' = TRUE
    /\ UNCHANGED <<chartInstance, pendingActions, executed, requested, nrequests>>
    /\ UNCHANGED OutsideChart

\* the chart emits 'finished' with actions waiting: flushPendingActions
ChartFinished ==
    /\ ChartReady
    /\ pendingActions # <<>>
    /\ LET flushed == flushPendingActions(chartInstance, modelReady, pendingActions)
       IN /\ pendingActions' = flushed.pendingActions
          /\ executed' = executed \o flushed.ran
    /\ UNCHANGED <<chartInstance, modelReady, requested, nrequests>>
    /\ UNCHANGED OutsideChart

NextChart ==
    \/ \E call \in ChartCalls, throws \in BOOLEAN : ChartCall(call, throws)
    \/ HandleChartReady
    \/ ModelAvailable
    \/ ChartFinished

SpecChart == InitChart /\ [][NextChart]_vars

\* the actions of a sequence that were queued
QueuedOf(tasks) == SelectSeq(tasks, LAMBDA task : task.queued)

\* C30: the queued actions are run once each and in the order they were requested,
\* whether or not one of them throws (those run so far, followed by those waiting,
\* are the queued ones as requested), and a flush on a chart with a model leaves
\* none waiting
C30_QueuedActionsRunOnceInOrder ==
    [][/\ QueuedOf(executed') \o pendingActions' = QueuedOf(requested')
       /\ (ChartReady' /\ modelReady /\ nrequests' = nrequests) => pendingActions' = <<>>]_vars

\* C30 witness: two actions were queued, the first threw, and both have run
C30_Witness ==
    /\ Len(executed) >= 2
    /\ executed[1].queued /\ executed[1].throws
    /\ executed[2].queued
    /\ executed[2].call # executed[1].call
    /\ pendingActions = <<>>

====
